---- MODULE Spec2Model ----
(***************************************************************************)
(* Event correlation and encounter aggregation engine of nwn_parser:       *)
(* process_parsed_line (src/src/parsing/processor.rs), the damage          *)
(* breakdown conversion of parse_log_line (src/src/parsing/line_parser.rs) *)
(* and NwnLogApp::aggregate_stats (src/src/gui/app.rs).                    *)
(*                                                                         *)
(* Strings that the code splits or builds (combatant names, damage         *)
(* sources) are sequences of text pieces, so that find(" | "), format!()   *)
(* and trim() are modelled by what they do.  The piece "|" stands for the  *)
(* separator " | ".  Option<T> is a set with at most one element.          *)
(* HashMap<K, V> is a function whose DOMAIN is the key set.                *)
(***************************************************************************)
EXTENDS Integers, Sequences, FiniteSets, TLC

VARIABLES
    encounters,            \* Arc<Mutex<HashMap<u64, Encounter>>>
    encounter_counter,     \* Arc<Mutex<u64>>
    current_encounter,     \* Option<u64>, the worker's local
    last_combat_time,      \* u64, the worker's local
    spell_contexts,        \* Vec<SpellContext>
    pending_attacks,       \* Vec<PendingAttack>
    pending_spells,        \* Vec<PendingSpell>
    long_duration_spells,  \* Vec<LongDurationSpell>
    steps,                 \* number of events processed so far
    last,                  \* history: the last processed event, its outcome, the tracker before it
    consumed,              \* history: occurrences (event numbers) of consumed attacks and spells
    prev_damage_time,      \* history: timestamp of the previous positive-total Damage event
    damage_log,            \* history: the positive-total Damage events and their encounters
    feed,                  \* which event alphabet the log source writes
    aggA, aggB, aggC,      \* CombatantStats operands of the aggregator
    aggOut,                \* results of the last aggregator application
    replica,               \* a second run of the engine on the same events
    mutex,                 \* the holder of each Mutex: "free", "worker" or "ui"
    current_encounter_id,  \* Arc<Mutex<Option<u64>>>: the id the presentation layer reads
    log_reload_requested,  \* Arc<Mutex<bool>>
    current_log_path,      \* Option<PathBuf>, the worker's local
    wpc,                   \* the worker's position in log_watcher_thread
    wline,                 \* the line the worker is processing
    worker_new_id,         \* the worker's local new_id (processor.rs 177)
    upc,                   \* the presentation thread's position in a frame
    ui_result,             \* what the last frame's read got: "data" or "empty"
    mutations,             \* history: which thread wrote which shared object
    overflow_checks,       \* the build: TRUE when integer overflow panics (the dev profile)
    worker_panicked,       \* the worker thread has unwound from a panic
    raw_line,              \* a line of the log: its header, its text, the patterns that match it
    parsed                 \* Option<ParsedLine>: what parse_log_line made of raw_line

engineVars == <<encounters, encounter_counter, current_encounter, last_combat_time,
                spell_contexts, pending_attacks, pending_spells, long_duration_spells>>
histVars == <<steps, last, consumed, prev_damage_time, damage_log>>
aggVars == <<aggA, aggB, aggC, aggOut>>
threadVars == <<mutex, current_encounter_id, log_reload_requested, current_log_path,
                wpc, wline, worker_new_id, upc, ui_result, mutations>>
buildVars == <<overflow_checks, worker_panicked>>
parserVars == <<raw_line, parsed>>
vars == <<engineVars, histVars, feed, aggVars, threadVars, buildVars, parserVars, replica>>

-----------------------------------------------------------------------------
(* Bounds of the model *)

MaxEvents == 4
MaxAggOps == 3

(* Program constants *)

ENCOUNTER_TIMEOUT == 6
ATTACK_EXPIRY == 3
LONG_DURATION_EXPIRY == 6

(* The u32 counters of CombatantStats.  TLC's integers end at 2^31 - 1, one   *)
(* bit short of u32, so the amounts of the feed that reaches the limit are    *)
(* counted in pairs of points: U32_MAX_PAIRS pairs are 2^32 - 2 points, and a *)
(* sum of pairs above U32_MAX_PAIRS is a sum of points above u32::MAX.  The   *)
(* other feeds stay far below the limit, where the unit makes no difference. *)
U32_MAX_PAIRS == 2147483647

-----------------------------------------------------------------------------
(* Option<T> *)

None == {}
Some(x) == {x}
Unwrap(o) == CHOOSE x \in o : TRUE

(* u64::saturating_sub and u32 +=.  Add32 is the value that += leaves where   *)
(* overflow wraps (a release build); where overflow panics (a debug build)   *)
(* the statement does not complete, which Step decides with counter_wrapped. *)

saturating_sub(a, b) == IF a > b THEN a - b ELSE 0
Add32(a, b) == IF a > U32_MAX_PAIRS - b THEN a - (U32_MAX_PAIRS - b) - 1 ELSE a + b

(* HashMap helpers *)

EmptyMap == [k \in {} |-> 0]
Get(m, k) == IF k \in DOMAIN m THEN m[k] ELSE 0
GetMap(m, k) == IF k \in DOMAIN m THEN m[k] ELSE EmptyMap
Put(m, k, v) == [x \in (DOMAIN m) \cup {k} |-> IF x = k THEN v ELSE m[x]]
\* *m.entry(k).or_default() += v
EntryAdd(m, k, v) == Put(m, k, Add32(Get(m, k), v))
\* *m.entry(k1).or_default().entry(k2).or_default() += v
EntryAdd2(m, k1, k2, v) == Put(m, k1, EntryAdd(GetMap(m, k1), k2, v))
EntryAdd3(m, k1, k2, k3, v) == Put(m, k1, EntryAdd2(GetMap(m, k1), k2, k3, v))

RECURSIVE SumOver(_, _)
SumOver(m, keys) ==
    IF keys = {} THEN 0
    ELSE LET k == CHOOSE x \in keys : TRUE IN m[k] + SumOver(m, keys \ {k})
SumMap(m) == SumOver(m, DOMAIN m)

(* Vec helpers *)

\* index of the first element satisfying P, 0 when there is none (Iterator::find / position)
FirstIndex(s, P(_)) ==
    IF \E i \in 1..Len(s) : P(s[i])
    THEN CHOOSE i \in 1..Len(s) : P(s[i]) /\ \A j \in 1..(i - 1) : ~P(s[j])
    ELSE 0
\* Vec::remove(idx)
RemoveAt(s, idx) == SubSeq(s, 1, idx - 1) \o SubSeq(s, idx + 1, Len(s))
\* Vec::retain
Retain(s, P(_)) == SelectSeq(s, P)

-----------------------------------------------------------------------------
(* Names and texts *)

UnknownCaster == <<"Unknown Caster">>
SEP == "|"

Hero == <<"Hero">>
Orc == <<"Orc">>
Imp == <<"Imp">>
HeroWolf == <<"Hero", SEP, "Wolf">>

\* is_long_duration_spell
is_long_duration_spell(spell) ==
    spell \in {"Isaac's Greater Missile Storm", "Isaac's Lesser Missile Storm",
               "Magic Missile", "Flame Arrow", "Ball Lightning"}

\* get_spell_damage_type: Option<&str>
get_spell_damage_type(spell) ==
    CASE spell = "Flame Arrow" -> Some("Fire")
      [] spell = "Ball Lightning" -> Some("Electrical")
      [] spell \in {"Isaac's Greater Missile Storm", "Isaac's Lesser Missile Storm",
                    "Magic Missile"} -> Some("Magical")
      [] OTHER -> None

(* The breakdown text of a damage line, split at whitespace: a piece is      *)
(* <<"n", 5>> when it reads as a u32 and <<"w", "Fire">> otherwise.          *)
Num(n) == <<"n", n>>
Word(w) == <<"w", w>>

\* for chunk in parts.chunks(2) { if let (Ok(amount), Some(dtype)) = ... insert }
RECURSIVE parse_breakdown_from(_, _, _)
parse_breakdown_from(parts, i, acc) ==
    IF i > Len(parts) THEN acc
    ELSE IF i + 1 <= Len(parts) /\ parts[i][1] = "n"
         THEN parse_breakdown_from(parts, i + 2, Put(acc, parts[i + 1][2], parts[i][2]))
         ELSE parse_breakdown_from(parts, i + 2, acc)
parse_breakdown(parts) == parse_breakdown_from(parts, 1, EmptyMap)

-----------------------------------------------------------------------------
(* CombatantStats (Default) and update_action_time *)

CombatantStats_default ==
    [ hits |-> 0, misses |-> 0, critical_hits |-> 0, concealment_dodges |-> 0,
      weapon_buffs |-> 0, total_damage_dealt |-> 0, hit_damage |-> 0, crit_damage |-> 0,
      weapon_buff_damage |-> 0,
      damage_by_type_dealt |-> EmptyMap, hit_damage_by_type |-> EmptyMap,
      crit_damage_by_type |-> EmptyMap, weapon_buff_damage_by_type |-> EmptyMap,
      damage_by_source_dealt |-> EmptyMap, damage_by_source_and_type_dealt |-> EmptyMap,
      damage_by_target_dealt |-> EmptyMap, damage_by_target_and_source_dealt |-> EmptyMap,
      damage_by_target_source_and_type_dealt |-> EmptyMap,
      hit_damage_by_target_type |-> EmptyMap, crit_damage_by_target_type |-> EmptyMap,
      weapon_buff_damage_by_target_type |-> EmptyMap,
      times_attacked |-> 0, total_damage_received |-> 0,
      damage_by_type_received |-> EmptyMap, damage_by_source_received |-> EmptyMap,
      damage_by_source_and_type_received |-> EmptyMap,
      damage_by_attacker_received |-> EmptyMap,
      damage_by_attacker_and_source_received |-> EmptyMap,
      total_damage_absorbed |-> 0, absorbed_by_type |-> EmptyMap,
      first_action_time |-> None, last_action_time |-> None ]

update_action_time(cs, timestamp) ==
    [cs EXCEPT !.first_action_time = IF @ = None THEN Some(timestamp) ELSE @,
               !.last_action_time = Some(timestamp)]

\* encounter.stats.entry(name).or_default()
StatsEntry(stats, name) == IF name \in DOMAIN stats THEN stats[name] ELSE CombatantStats_default

\* Encounter::new
Encounter_new(id, start_time) ==
    [ id |-> id, start_time |-> start_time, end_time |-> start_time, stats |-> EmptyMap,
      most_damaged_participant |-> <<>>, total_damage |-> 0 ]

-----------------------------------------------------------------------------
(* Summon attribution and source texts (processor.rs 519-539, 625) *)

\* attacker.find(" | "): the position of the first separator, 0 when there is none
pipe_pos(attacker) == FirstIndex(attacker, LAMBDA piece : piece = SEP)
\* statistics kept under the acting name as written
actual_attacker_of_acting_name(attacker) == attacker

\* attacker[..pipe_pos].trim()
actual_attacker_of(attacker) ==
    IF pipe_pos(attacker) = 0 THEN attacker ELSE SubSeq(attacker, 1, pipe_pos(attacker) - 1)
\* Option: attacker[pipe_pos + 3..].trim()
summon_name_of(attacker) ==
    IF pipe_pos(attacker) = 0 THEN None
    ELSE Some(SubSeq(attacker, pipe_pos(attacker) + 1, Len(attacker)))

SourceAttack == <<"Attack">>
SourceUnknown == <<"Unknown">>
\* format!("Spell: {}", spell)
SourceSpell(spell) == <<"Spell: ", spell>>
\* format!("{} ({})", a, b)
FormatParen(a, b) == a \o <<" (">> \o b \o <<")">>

final_damage_source_of(damage_source, attacker) ==
    IF summon_name_of(attacker) # None
    THEN FormatParen(damage_source, Unwrap(summon_name_of(attacker)))
    ELSE damage_source

-----------------------------------------------------------------------------
(* Damage arm: statistics (processor.rs 541-645) *)

\* for (k, &amount) in &breakdown { *m.entry(k).or_default() += amount }
AddAll(m, breakdown) ==
    [k \in (DOMAIN m) \cup (DOMAIN breakdown) |->
        IF k \in DOMAIN breakdown THEN Add32(Get(m, k), breakdown[k]) ELSE m[k]]

(* The loops `for (damage_type, &amount) in &breakdown` of the Damage arm     *)
(* (processor.rs 558, 580, 636) visit the HashMap in the order its hasher    *)
(* gives, which differs from one HashMap to the next: ev.iter is that order  *)
(* and iteration(ev) the pairs as the loop meets them.                       *)
iteration(ev) == [i \in 1..Len(ev.iter) |-> <<ev.iter[i], ev.breakdown[ev.iter[i]]>>]

\* a loop that stops after the first pair it meets
AddEach_first_only(m, items) ==
    IF items = <<>> THEN m ELSE EntryAdd(m, items[1][1], items[1][2])

\* for (k, &amount) in &breakdown { *m.entry(k).or_default() += amount }
RECURSIVE AddEach(_, _)
AddEach(m, items) ==
    IF items = <<>> THEN m
    ELSE AddEach(EntryAdd(m, items[1][1], items[1][2]), Tail(items))
\* for (k, &amount) in &breakdown { *m.entry(k1).or_default().entry(k).or_default() += amount }
AddEach2(m, k1, items) ==
    IF items = <<>> THEN m ELSE Put(m, k1, AddEach(GetMap(m, k1), items))
AddEach3(m, k1, k2, items) ==
    IF items = <<>> THEN m ELSE Put(m, k1, AddEach2(GetMap(m, k1), k2, items))

\* weapon-buff damage counted as ordinary hit damage
attack_split_totals_as_hit(cs, damage_source, is_from_crit, is_weapon_buff_damage, total) ==
    IF damage_source = SourceAttack
    THEN IF is_from_crit
         THEN [cs EXCEPT !.crit_damage = Add32(@, total)]
         ELSE [cs EXCEPT !.hit_damage = Add32(@, total)]
    ELSE cs

\* processor.rs 568-578
attack_split_totals(cs, damage_source, is_from_crit, is_weapon_buff_damage, total) ==
    IF damage_source = SourceAttack
    THEN IF is_weapon_buff_damage
         THEN [cs EXCEPT !.weapon_buffs = Add32(@, 1), !.weapon_buff_damage = Add32(@, total)]
         ELSE IF is_from_crit
              THEN [cs EXCEPT !.crit_damage = Add32(@, total)]
              ELSE [cs EXCEPT !.hit_damage = Add32(@, total)]
    ELSE cs

\* processor.rs 580-615, the loop over the breakdown
attacker_types_loop(cs, target, damage_source, final_src, is_from_crit, is_wb, items) ==
    LET c1 == [cs EXCEPT !.damage_by_type_dealt = AddEach(@, items)]
        c2 == IF damage_source = SourceAttack
              THEN IF is_wb
                   THEN [c1 EXCEPT
                           !.weapon_buff_damage_by_type = AddEach(@, items),
                           !.weapon_buff_damage_by_target_type = AddEach2(@, target, items)]
                   ELSE IF is_from_crit
                        THEN [c1 EXCEPT
                                !.crit_damage_by_type = AddEach(@, items),
                                !.crit_damage_by_target_type = AddEach2(@, target, items)]
                        ELSE [c1 EXCEPT
                                !.hit_damage_by_type = AddEach(@, items),
                                !.hit_damage_by_target_type = AddEach2(@, target, items)]
              ELSE c1
    IN [c2 EXCEPT !.damage_by_source_and_type_dealt = AddEach2(@, final_src, items)]

\* processor.rs 541-616
attacker_stats_update(cs0, ev, damage_source, final_src, is_from_crit, is_wb) ==
    LET c1 == update_action_time(cs0, ev.timestamp)
        c2 == [c1 EXCEPT
                 !.total_damage_dealt = Add32(@, ev.total),
                 !.damage_by_source_dealt = EntryAdd(@, final_src, ev.total),
                 !.damage_by_target_dealt = EntryAdd(@, ev.target, ev.total),
                 !.damage_by_target_and_source_dealt = EntryAdd2(@, ev.target, final_src, ev.total),
                 !.damage_by_target_source_and_type_dealt =
                     AddEach3(@, ev.target, final_src, iteration(ev))]
        c3 == attack_split_totals(c2, damage_source, is_from_crit, is_wb, ev.total)
    IN attacker_types_loop(c3, ev.target, damage_source, final_src, is_from_crit, is_wb,
                           iteration(ev))

\* processor.rs 618-645
target_stats_update(cs0, ev, actual_attacker, final_src) ==
    LET received_source == FormatParen(actual_attacker, final_src)
        c1 == update_action_time(cs0, ev.timestamp)
    IN [c1 EXCEPT
          !.total_damage_received = Add32(@, ev.total),
          !.damage_by_source_received = EntryAdd(@, received_source, ev.total),
          !.damage_by_attacker_received = EntryAdd(@, actual_attacker, ev.total),
          !.damage_by_attacker_and_source_received =
              EntryAdd2(@, actual_attacker, final_src, ev.total),
          !.damage_by_type_received = AddEach(@, iteration(ev)),
          !.damage_by_source_and_type_received = AddEach2(@, received_source, iteration(ev))]

\* the whole statistics update of one Damage event on the encounter's stats table
damage_stats(stats, ev, damage_source, is_from_crit, is_wb) ==
    LET actual_attacker == actual_attacker_of(ev.attacker)
        final_src == final_damage_source_of(damage_source, ev.attacker)
        s1 == Put(stats, actual_attacker,
                  attacker_stats_update(StatsEntry(stats, actual_attacker), ev, damage_source,
                                        final_src, is_from_crit, is_wb))
    IN Put(s1, ev.target, target_stats_update(StatsEntry(s1, ev.target), ev, actual_attacker, final_src))

-----------------------------------------------------------------------------
(* process_parsed_line: the encounter segmenter (processor.rs 161-198) *)

\* the engine state handed to process_parsed_line
State ==
    [ encounters |-> encounters, encounter_counter |-> encounter_counter,
      current_encounter |-> current_encounter, last_combat_time |-> last_combat_time,
      spell_contexts |-> spell_contexts, pending_attacks |-> pending_attacks,
      pending_spells |-> pending_spells, long_duration_spells |-> long_duration_spells ]

\* watcher.rs 554-570: combat_time is the event's own timestamp
combat_time_of(ev) == ev.timestamp

is_administrative(ev) ==
    ev.kind \in {"PlayerJoin", "PlayerChat", "PartyChat", "PartyJoin", "Resting", "BuffExpired"}

\* a combat time that every event with a total or an amount moves
should_update_combat_time_any_event(ev) == ev.kind \in {"Damage", "Attack", "Absorb"}

should_update_combat_time(ev) == ev.kind = "Damage" /\ ev.total > 0

\* a boundary test that also fires on a gap of exactly the timeout
should_start_new_at_timeout(st, ev) ==
    IF should_update_combat_time(ev)
    THEN \/ st.current_encounter = None
         \/ /\ combat_time_of(ev) > st.last_combat_time
            /\ saturating_sub(combat_time_of(ev), st.last_combat_time) >= ENCOUNTER_TIMEOUT
    ELSE st.current_encounter = None

\* a boundary test on the distance between the two times, whichever is later
should_start_new_by_distance(st, ev) ==
    IF should_update_combat_time(ev)
    THEN \/ st.current_encounter = None
         \/ saturating_sub(combat_time_of(ev), st.last_combat_time)
               + saturating_sub(st.last_combat_time, combat_time_of(ev)) > ENCOUNTER_TIMEOUT
    ELSE st.current_encounter = None

should_start_new(st, ev) ==
    IF should_update_combat_time(ev)
    THEN \/ st.current_encounter = None
         \/ /\ combat_time_of(ev) > st.last_combat_time
            /\ saturating_sub(combat_time_of(ev), st.last_combat_time) > ENCOUNTER_TIMEOUT
    ELSE st.current_encounter = None

\* a transition that empties the pending attacks as well
start_new_encounter_clearing_attacks(st, ev) ==
    LET new_id == st.encounter_counter
    IN [st EXCEPT !.encounter_counter = @ + 1,
                  !.encounters = Put(@, new_id, Encounter_new(new_id, combat_time_of(ev))),
                  !.current_encounter = Some(new_id),
                  !.spell_contexts = <<>>,
                  !.pending_attacks = <<>>,
                  !.pending_spells = <<>>,
                  !.long_duration_spells = <<>>]

start_new_encounter(st, ev) ==
    LET new_id == st.encounter_counter
    IN [st EXCEPT !.encounter_counter = @ + 1,
                  !.encounters = Put(@, new_id, Encounter_new(new_id, combat_time_of(ev))),
                  !.current_encounter = Some(new_id),
                  !.spell_contexts = <<>>,
                  !.pending_spells = <<>>,
                  !.long_duration_spells = <<>>]

segmenter(st, ev) ==
    LET s1 == IF should_start_new(st, ev) THEN start_new_encounter(st, ev) ELSE st
    IN IF should_update_combat_time(ev)
       THEN [s1 EXCEPT !.last_combat_time = combat_time_of(ev)]
       ELSE s1

-----------------------------------------------------------------------------
(* Pending-action tracker arms (processor.rs 231-372, 647-706) *)

\* a window that closes at the age of exactly 3 seconds
expire_attacks_before_limit(pa, combat_time) ==
    Retain(pa, LAMBDA attack : saturating_sub(combat_time, attack.timestamp) < ATTACK_EXPIRY)

expire_attacks(pa, combat_time) ==
    Retain(pa, LAMBDA attack : saturating_sub(combat_time, attack.timestamp) <= ATTACK_EXPIRY)

expire_long_duration(lds, combat_time) ==
    Retain(lds, LAMBDA spell : saturating_sub(combat_time, spell.timestamp) <= LONG_DURATION_EXPIRY)

Contains(vec, x) == \E i \in 1..Len(vec) : vec[i] = x

NewPendingSpell(caster, ev) ==
    [ caster |-> caster, target |-> ev.target, spell |-> ev.spell,
      timestamp |-> combat_time_of(ev), had_save_roll |-> FALSE,
      had_damage_immunity |-> FALSE, line |-> ev.line ]

NewSpellContext(ev) ==
    [ caster |-> UnknownCaster, spell |-> ev.spell, affected_targets |-> <<ev.target>>,
      timestamp |-> combat_time_of(ev) ]

\* the first context of the same spell that does not hold the target yet, 0 when none
open_context_index(ctxs, ev) ==
    FirstIndex(ctxs, LAMBDA ctx : ctx.spell = ev.spell /\ ~Contains(ctx.affected_targets, ev.target))

\* a resist that appends its pending spell to the ones already pending
arm_spell_resist_keeping_pending(st, ev) ==
    LET i == open_context_index(st.spell_contexts, ev)
    IN IF is_long_duration_spell(ev.spell)
       THEN [st EXCEPT
               !.pending_spells = <<>>,
               !.long_duration_spells = Append(@, NewPendingSpell(UnknownCaster, ev)),
               !.spell_contexts =
                   IF i # 0 THEN [@ EXCEPT ![i].affected_targets = Append(@, ev.target)]
                   ELSE Append(@, NewSpellContext(ev))]
       ELSE IF i # 0
            THEN [st EXCEPT
                    !.pending_spells = Append(@, NewPendingSpell(st.spell_contexts[i].caster, ev)),
                    !.spell_contexts = [@ EXCEPT ![i].affected_targets = Append(@, ev.target)]]
            ELSE [st EXCEPT
                    !.pending_spells = Append(@, NewPendingSpell(UnknownCaster, ev)),
                    !.spell_contexts = Append(@, NewSpellContext(ev))]

\* a long-duration resist that replaces the entries tracked so far
arm_spell_resist_single_long(st, ev) ==
    LET i == open_context_index(st.spell_contexts, ev)
    IN IF is_long_duration_spell(ev.spell)
       THEN [st EXCEPT
               !.pending_spells = <<>>,
               !.long_duration_spells = <<NewPendingSpell(UnknownCaster, ev)>>,
               !.spell_contexts =
                   IF i # 0 THEN [@ EXCEPT ![i].affected_targets = Append(@, ev.target)]
                   ELSE Append(@, NewSpellContext(ev))]
       ELSE IF i # 0
            THEN [st EXCEPT
                    !.pending_spells = <<NewPendingSpell(st.spell_contexts[i].caster, ev)>>,
                    !.spell_contexts = [@ EXCEPT ![i].affected_targets = Append(@, ev.target)]]
            ELSE [st EXCEPT
                    !.pending_spells = <<NewPendingSpell(UnknownCaster, ev)>>,
                    !.spell_contexts = Append(@, NewSpellContext(ev))]

arm_spell_resist(st, ev) ==
    LET i == open_context_index(st.spell_contexts, ev)
    IN IF is_long_duration_spell(ev.spell)
       THEN [st EXCEPT
               !.pending_spells = <<>>,
               !.long_duration_spells = Append(@, NewPendingSpell(UnknownCaster, ev)),
               !.spell_contexts =
                   IF i # 0 THEN [@ EXCEPT ![i].affected_targets = Append(@, ev.target)]
                   ELSE Append(@, NewSpellContext(ev))]
       ELSE IF i # 0
            THEN [st EXCEPT
                    !.pending_spells = <<NewPendingSpell(st.spell_contexts[i].caster, ev)>>,
                    !.spell_contexts = [@ EXCEPT ![i].affected_targets = Append(@, ev.target)]]
            ELSE [st EXCEPT
                    !.pending_spells = <<NewPendingSpell(UnknownCaster, ev)>>,
                    !.spell_contexts = Append(@, NewSpellContext(ev))]

\* the context a Save is matched with: the first whose targets are empty or hold the target
save_context_index(ctxs, ev) ==
    FirstIndex(ctxs, LAMBDA ctx : ctx.affected_targets = <<>> \/ Contains(ctx.affected_targets, ev.target))

MarkSaved(vec, target, spell) ==
    [i \in 1..Len(vec) |->
        IF vec[i].target = target /\ vec[i].spell = spell
        THEN [vec[i] EXCEPT !.had_save_roll = TRUE] ELSE vec[i]]

arm_save(st, ev) ==
    LET i == save_context_index(st.spell_contexts, ev)
    IN IF i = 0 THEN st
       ELSE LET ctx == st.spell_contexts[i]
            IN [st EXCEPT
                  !.spell_contexts =
                      IF Contains(ctx.affected_targets, ev.target) THEN @
                      ELSE [@ EXCEPT ![i].affected_targets = Append(@, ev.target)],
                  !.pending_spells = MarkSaved(@, ev.target, ctx.spell),
                  !.long_duration_spells = MarkSaved(@, ev.target, ctx.spell)]

NewPendingAttack(ev, is_crit) ==
    [ attacker |-> ev.attacker, target |-> ev.target, timestamp |-> combat_time_of(ev),
      is_crit |-> is_crit, line |-> ev.line ]

attack_stats(cs0, ev) ==
    LET cs == update_action_time(cs0, ev.timestamp)
    IN CASE ev.result = "hit" -> [cs EXCEPT !.hits = Add32(@, 1)]
         [] ev.result = "miss" ->
              [cs EXCEPT !.misses = Add32(@, 1),
                         !.concealment_dodges = IF ev.concealment THEN Add32(@, 1) ELSE @]
         [] ev.result = "critical hit" -> [cs EXCEPT !.critical_hits = Add32(@, 1)]
         [] OTHER -> cs

\* an attack roll that leaves the pending spells in place
arm_attack_keeping_spells(st, id, ev) ==
    LET kept == expire_attacks(st.pending_attacks, combat_time_of(ev))
    IN [st EXCEPT
          !.pending_attacks =
              CASE ev.result = "hit" -> Append(kept, NewPendingAttack(ev, FALSE))
                [] ev.result = "critical hit" -> Append(kept, NewPendingAttack(ev, TRUE))
                [] OTHER -> kept,
          !.encounters[id].stats =
              Put(@, ev.attacker, attack_stats(StatsEntry(@, ev.attacker), ev))]

arm_attack(st, id, ev) ==
    LET kept == expire_attacks(st.pending_attacks, combat_time_of(ev))
    IN [st EXCEPT
          !.pending_spells = <<>>,
          !.pending_attacks =
              CASE ev.result = "hit" -> Append(kept, NewPendingAttack(ev, FALSE))
                [] ev.result = "critical hit" -> Append(kept, NewPendingAttack(ev, TRUE))
                [] OTHER -> kept,
          !.encounters[id].stats =
              Put(@, ev.attacker, attack_stats(StatsEntry(@, ev.attacker), ev))]

\* the absorbed type: the line's own for Absorb, fixed for the two other variants
absorb_dtype(ev) ==
    CASE ev.kind = "AbsorbResistance" -> "Resistance"
      [] ev.kind = "AbsorbReduction" -> "Reduction"
      [] OTHER -> ev.dtype

MarkImmunity(vec, target) ==
    [i \in 1..Len(vec) |->
        IF vec[i].target = target THEN [vec[i] EXCEPT !.had_damage_immunity = TRUE] ELSE vec[i]]

absorb_stats(cs0, ev) ==
    LET cs == update_action_time(cs0, ev.timestamp)
    IN [cs EXCEPT !.total_damage_absorbed = Add32(@, ev.amount),
                  !.absorbed_by_type = EntryAdd(@, absorb_dtype(ev), ev.amount)]

arm_absorb(st, id, ev) ==
    [st EXCEPT
       !.encounters[id].stats = Put(@, ev.target, absorb_stats(StatsEntry(@, ev.target), ev)),
       !.pending_spells = MarkImmunity(@, ev.target),
       !.long_duration_spells = MarkImmunity(@, ev.target)]

-----------------------------------------------------------------------------
(* Damage attribution engine (processor.rs 373-517) *)

caster_matches(spell, ev) == spell.caster = ev.attacker \/ spell.caster = UnknownCaster

\* a match on any breakdown that contains the expected type
long_duration_matches_containing(spell, ev) ==
    /\ caster_matches(spell, ev)
    /\ spell.target = ev.target
    /\ IF get_spell_damage_type(spell.spell) # None
       THEN Unwrap(get_spell_damage_type(spell.spell)) \in DOMAIN ev.breakdown
       ELSE TRUE

\* the closure of long_duration_spells.iter().find (processor.rs 385-402)
long_duration_matches(spell, ev) ==
    /\ caster_matches(spell, ev)
    /\ spell.target = ev.target
    /\ IF get_spell_damage_type(spell.spell) # None
       THEN /\ Cardinality(DOMAIN ev.breakdown) = 1
            /\ Unwrap(get_spell_damage_type(spell.spell)) \in DOMAIN ev.breakdown
       ELSE TRUE

matching_long_duration_spell(lds, ev) ==
    FirstIndex(lds, LAMBDA spell : long_duration_matches(spell, ev))

\* processor.rs 411-416, 474-479, 492-497: the first unknown-caster context of the spell
resolve_context_caster(ctxs, spell_name, attacker) ==
    LET i == FirstIndex(ctxs, LAMBDA ctx : ctx.spell = spell_name /\ ctx.caster = UnknownCaster)
    IN IF i = 0 THEN ctxs ELSE [ctxs EXCEPT ![i].caster = attacker]

\* processor.rs 419-423
resolve_long_duration_casters(lds, spell_name, attacker) ==
    [i \in 1..Len(lds) |->
        IF lds[i].spell = spell_name /\ lds[i].caster = UnknownCaster
        THEN [lds[i] EXCEPT !.caster = attacker] ELSE lds[i]]

\* processor.rs 431-439: index of the pending-spell candidate, 0 when none
oldest_spell(ps, ev) ==
    LET with_indicators ==
            FirstIndex(ps, LAMBDA spell : /\ caster_matches(spell, ev)
                                          /\ spell.target = ev.target
                                          /\ (spell.had_save_roll \/ spell.had_damage_immunity))
    IN IF with_indicators # 0 THEN with_indicators
       ELSE FirstIndex(ps, LAMBDA spell : caster_matches(spell, ev) /\ spell.target = ev.target)

\* processor.rs 441-452: index of the pending-attack candidate, 0 when none
oldest_attack(pa, ev) ==
    LET M == {i \in 1..Len(pa) : pa[i].attacker = ev.attacker /\ pa[i].target = ev.target}
    IN IF M = {} THEN 0
       ELSE CHOOSE i \in M : \A j \in M : \/ pa[i].timestamp < pa[j].timestamp
                                          \/ (pa[i].timestamp = pa[j].timestamp /\ i <= j)

\* processor.rs 455
is_weapon_buff(breakdown) == Cardinality(DOMAIN breakdown) = 1 /\ "Fire" \in DOMAIN breakdown

\* processor.rs 457
weapon_buff_short_circuit(pa, ps, ev) == is_weapon_buff(ev.breakdown) /\ pa # <<>> /\ ps = <<>>

\* the preference with a strictly earlier spell
should_use_spell_strictly_earlier(spell, attack_timestamp, breakdown) ==
    \/ spell.had_save_roll
    \/ spell.had_damage_immunity
    \/ spell.timestamp < attack_timestamp
    \/ "Physical" \notin DOMAIN breakdown

\* processor.rs 465-467
should_use_spell(spell, attack_timestamp, breakdown) ==
    \/ spell.had_save_roll
    \/ spell.had_damage_immunity
    \/ spell.timestamp <= attack_timestamp
    \/ "Physical" \notin DOMAIN breakdown

\* an attack-only match that ignores the breakdown
attack_only_is_attack_always(breakdown) == TRUE

\* processor.rs 503
attack_only_is_attack(breakdown) == "Physical" \in DOMAIN breakdown

Outcome(st, source, crit, wb, rule, used) ==
    [ st |-> st, damage_source |-> source, is_from_crit |-> crit,
      is_weapon_buff_damage |-> wb, rule |-> rule, used |-> used ]

use_pending_spell(st, ev, spell_idx) ==
    LET pending_spell == st.pending_spells[spell_idx]
    IN Outcome([st EXCEPT
                  !.pending_spells = RemoveAt(@, spell_idx),
                  !.spell_contexts =
                      IF pending_spell.caster = UnknownCaster
                      THEN resolve_context_caster(@, pending_spell.spell, ev.attacker)
                      ELSE @],
               SourceSpell(pending_spell.spell), FALSE, FALSE, "spell", {pending_spell.line})

\* an attack that stays pending after it is used
use_pending_attack_keeping(st, attack_idx) ==
    LET attack == st.pending_attacks[attack_idx]
    IN Outcome(st, SourceAttack, attack.is_crit, FALSE, "attack", {attack.line})

use_pending_attack(st, attack_idx) ==
    LET attack == st.pending_attacks[attack_idx]
    IN Outcome([st EXCEPT !.pending_attacks = RemoveAt(@, attack_idx)],
               SourceAttack, attack.is_crit, FALSE, "attack", {attack.line})

\* a long-duration entry that is used up by the damage it matches
use_long_duration_spell_consuming(st, ev, idx) ==
    LET long_spell == st.long_duration_spells[idx]
    IN Outcome([st EXCEPT !.long_duration_spells = RemoveAt(@, idx)],
               SourceSpell(long_spell.spell), FALSE, FALSE, "long", {})

use_long_duration_spell(st, ev, idx) ==
    LET long_spell == st.long_duration_spells[idx]
    IN Outcome(IF long_spell.caster = UnknownCaster
               THEN [st EXCEPT
                       !.spell_contexts = resolve_context_caster(@, long_spell.spell, ev.attacker),
                       !.long_duration_spells =
                           resolve_long_duration_casters(@, long_spell.spell, ev.attacker)]
               ELSE st,
               SourceSpell(long_spell.spell), FALSE, FALSE, "long", {})

\* processor.rs 373-517; st holds the lists after the two expiries
attribute(st, ev) ==
    LET long_idx == matching_long_duration_spell(st.long_duration_spells, ev)
        spell_idx == oldest_spell(st.pending_spells, ev)
        attack_idx == oldest_attack(st.pending_attacks, ev)
    IN IF long_idx # 0 THEN use_long_duration_spell(st, ev, long_idx)
       ELSE IF weapon_buff_short_circuit(st.pending_attacks, st.pending_spells, ev)
       THEN Outcome(st, SourceAttack, FALSE, TRUE, "weapon_buff", {})
       ELSE IF spell_idx # 0 /\ attack_idx # 0
       THEN IF should_use_spell(st.pending_spells[spell_idx],
                                st.pending_attacks[attack_idx].timestamp, ev.breakdown)
            THEN use_pending_spell(st, ev, spell_idx)
            ELSE use_pending_attack(st, attack_idx)
       ELSE IF spell_idx # 0 THEN use_pending_spell(st, ev, spell_idx)
       ELSE IF attack_idx # 0
       THEN IF attack_only_is_attack(ev.breakdown)
            THEN use_pending_attack(st, attack_idx)
            ELSE Outcome(st, SourceUnknown, FALSE, FALSE, "unknown", {})
       ELSE Outcome(st, SourceUnknown, FALSE, FALSE, "unknown", {})

\* the Damage arm's attribution on the state the arm starts from
damage_outcome(st, ev) ==
    attribute([st EXCEPT
                 !.long_duration_spells = expire_long_duration(@, combat_time_of(ev)),
                 !.pending_attacks = expire_attacks(@, combat_time_of(ev))], ev)

arm_damage(st, id, ev) ==
    LET out == damage_outcome(st, ev)
    IN [out.st EXCEPT
          !.encounters[id].stats =
              damage_stats(@, ev, out.damage_source, out.is_from_crit, out.is_weapon_buff_damage)]

-----------------------------------------------------------------------------
(* process_parsed_line as a whole (processor.rs 7-719) *)

\* processor.rs 200-717: the arms run only on an encounter that is in the table
arms_run(st) ==
    st.current_encounter # None /\ Unwrap(st.current_encounter) \in DOMAIN st.encounters

\* an end time written to every encounter of the table
match_arms_ending_all(st, ev) ==
    IF ~arms_run(st) THEN st
    ELSE LET id == Unwrap(st.current_encounter)
             s1 == [st EXCEPT !.encounters =
                        [i \in DOMAIN @ |-> [@[i] EXCEPT !.end_time = combat_time_of(ev)]]]
         IN CASE ev.kind = "SpellResist" -> arm_spell_resist(s1, ev)
              [] ev.kind = "Save" -> arm_save(s1, ev)
              [] ev.kind = "Attack" -> arm_attack(s1, id, ev)
              [] ev.kind = "Damage" -> arm_damage(s1, id, ev)
              [] ev.kind \in {"Absorb", "AbsorbResistance", "AbsorbReduction"} -> arm_absorb(s1, id, ev)
              [] OTHER -> s1

\* an end time that only Damage events move
match_arms_end_time_on_damage(st, ev) ==
    IF ~arms_run(st) THEN st
    ELSE LET id == Unwrap(st.current_encounter)
             s1 == IF ev.kind = "Damage"
                   THEN [st EXCEPT !.encounters[id].end_time = combat_time_of(ev)] ELSE st
         IN CASE ev.kind = "SpellResist" -> arm_spell_resist(s1, ev)
              [] ev.kind = "Save" -> arm_save(s1, ev)
              [] ev.kind = "Attack" -> arm_attack(s1, id, ev)
              [] ev.kind = "Damage" -> arm_damage(s1, id, ev)
              [] ev.kind \in {"Absorb", "AbsorbResistance", "AbsorbReduction"} -> arm_absorb(s1, id, ev)
              [] OTHER -> s1

match_arms(st, ev) ==
    IF ~arms_run(st) THEN st
    ELSE LET id == Unwrap(st.current_encounter)
             s1 == [st EXCEPT !.encounters[id].end_time = combat_time_of(ev)]
         IN CASE ev.kind = "SpellResist" -> arm_spell_resist(s1, ev)
              [] ev.kind = "Save" -> arm_save(s1, ev)
              [] ev.kind = "Attack" -> arm_attack(s1, id, ev)
              [] ev.kind = "Damage" -> arm_damage(s1, id, ev)
              [] ev.kind \in {"Absorb", "AbsorbResistance", "AbsorbReduction"} -> arm_absorb(s1, id, ev)
              [] OTHER -> s1

\* a processor without the early returns: every line reaches the segmenter
process_parsed_line_without_early_return(st, ev) == match_arms(segmenter(st, ev), ev)

process_parsed_line(st, ev) ==
    IF is_administrative(ev) THEN st ELSE match_arms(segmenter(st, ev), ev)

-----------------------------------------------------------------------------
(* NwnLogApp::aggregate_stats (gui/app.rs 190-327): target after the call *)

\* for (k, inner) in &source { let t = target.entry(k).or_default(); for ... *t.entry() += }
MergeNested(target, source) ==
    [k \in (DOMAIN target) \cup (DOMAIN source) |->
        IF k \in DOMAIN source THEN AddAll(GetMap(target, k), source[k]) ELSE target[k]]
MergeNested2(target, source) ==
    [k \in (DOMAIN target) \cup (DOMAIN source) |->
        IF k \in DOMAIN source THEN MergeNested(GetMap(target, k), source[k]) ELSE target[k]]

Min(a, b) == IF a <= b THEN a ELSE b
Max(a, b) == IF a >= b THEN a ELSE b

\* the earliest time taken against the source's latest time
merge_first_action_time_from_last(target, source) ==
    IF source.last_action_time = None THEN target.first_action_time
    ELSE IF target.first_action_time = None THEN source.last_action_time
    ELSE Some(Min(Unwrap(target.first_action_time), Unwrap(source.last_action_time)))

\* app.rs 317-321
merge_first_action_time(target, source) ==
    IF source.first_action_time = None THEN target.first_action_time
    ELSE IF target.first_action_time = None THEN source.first_action_time
    ELSE Some(Min(Unwrap(target.first_action_time), Unwrap(source.first_action_time)))

\* app.rs 322-326
merge_last_action_time(target, source) ==
    IF source.last_action_time = None THEN target.last_action_time
    ELSE IF target.last_action_time = None THEN source.last_action_time
    ELSE Some(Max(Unwrap(target.last_action_time), Unwrap(source.last_action_time)))

aggregate_stats(target, source) ==
    [ hits |-> Add32(target.hits, source.hits),
      misses |-> Add32(target.misses, source.misses),
      critical_hits |-> Add32(target.critical_hits, source.critical_hits),
      concealment_dodges |-> target.concealment_dodges,
      weapon_buffs |-> Add32(target.weapon_buffs, source.weapon_buffs),
      total_damage_dealt |-> Add32(target.total_damage_dealt, source.total_damage_dealt),
      hit_damage |-> Add32(target.hit_damage, source.hit_damage),
      crit_damage |-> Add32(target.crit_damage, source.crit_damage),
      weapon_buff_damage |-> Add32(target.weapon_buff_damage, source.weapon_buff_damage),
      times_attacked |-> Add32(target.times_attacked, source.times_attacked),
      total_damage_received |-> Add32(target.total_damage_received, source.total_damage_received),
      total_damage_absorbed |-> Add32(target.total_damage_absorbed, source.total_damage_absorbed),
      damage_by_type_dealt |-> AddAll(target.damage_by_type_dealt, source.damage_by_type_dealt),
      hit_damage_by_type |-> AddAll(target.hit_damage_by_type, source.hit_damage_by_type),
      crit_damage_by_type |-> AddAll(target.crit_damage_by_type, source.crit_damage_by_type),
      weapon_buff_damage_by_type |->
          AddAll(target.weapon_buff_damage_by_type, source.weapon_buff_damage_by_type),
      damage_by_source_dealt |->
          AddAll(target.damage_by_source_dealt, source.damage_by_source_dealt),
      damage_by_source_and_type_dealt |->
          MergeNested(target.damage_by_source_and_type_dealt, source.damage_by_source_and_type_dealt),
      damage_by_target_dealt |->
          AddAll(target.damage_by_target_dealt, source.damage_by_target_dealt),
      damage_by_target_and_source_dealt |->
          MergeNested(target.damage_by_target_and_source_dealt,
                      source.damage_by_target_and_source_dealt),
      damage_by_target_source_and_type_dealt |->
          MergeNested2(target.damage_by_target_source_and_type_dealt,
                       source.damage_by_target_source_and_type_dealt),
      hit_damage_by_target_type |->
          MergeNested(target.hit_damage_by_target_type, source.hit_damage_by_target_type),
      crit_damage_by_target_type |->
          MergeNested(target.crit_damage_by_target_type, source.crit_damage_by_target_type),
      weapon_buff_damage_by_target_type |->
          MergeNested(target.weapon_buff_damage_by_target_type,
                      source.weapon_buff_damage_by_target_type),
      damage_by_source_received |->
          AddAll(target.damage_by_source_received, source.damage_by_source_received),
      damage_by_source_and_type_received |->
          MergeNested(target.damage_by_source_and_type_received,
                      source.damage_by_source_and_type_received),
      damage_by_attacker_received |->
          AddAll(target.damage_by_attacker_received, source.damage_by_attacker_received),
      damage_by_attacker_and_source_received |->
          MergeNested(target.damage_by_attacker_and_source_received,
                      source.damage_by_attacker_and_source_received),
      damage_by_type_received |-> target.damage_by_type_received,
      absorbed_by_type |-> AddAll(target.absorbed_by_type, source.absorbed_by_type),
      first_action_time |-> merge_first_action_time(target, source),
      last_action_time |-> merge_last_action_time(target, source) ]

-----------------------------------------------------------------------------
(* The events the log source writes: ParsedLine values (line_parser.rs 5-22) *)

AttackEv(attacker, target, result, concealment, t) ==
    [ kind |-> "Attack", attacker |-> attacker, target |-> target, result |-> result,
      concealment |-> concealment, timestamp |-> t, line |-> 0 ]
\* the orders in which a HashMap with these keys can be iterated
Orders(keys) ==
    { o \in [1..Cardinality(keys) -> keys] : \A k \in keys : \E i \in DOMAIN o : o[i] = k }
\* one of them
AnOrder(keys) == CHOOSE o \in Orders(keys) : TRUE

\* parse_log_line's Damage branch: the breakdown is converted from the line's text
DamageEv(attacker, target, total, parts, t) ==
    [ kind |-> "Damage", attacker |-> attacker, target |-> target, total |-> total,
      breakdown |-> parse_breakdown(parts), iter |-> AnOrder(DOMAIN parse_breakdown(parts)),
      timestamp |-> t, line |-> 0 ]
SpellResistEv(target, spell, t) ==
    [ kind |-> "SpellResist", target |-> target, spell |-> spell, timestamp |-> t, line |-> 0 ]
SaveEv(target, t) == [ kind |-> "Save", target |-> target, timestamp |-> t, line |-> 0 ]
AbsorbEv(kind, target, amount, dtype, t) ==
    [ kind |-> kind, target |-> target, amount |-> amount, dtype |-> dtype,
      timestamp |-> t, line |-> 0 ]
OtherEv(kind, t) == [ kind |-> kind, timestamp |-> t, line |-> 0 ]

Physical5 == <<Num(5), Word("Physical")>>
Fire5 == <<Num(5), Word("Fire")>>
Magical5 == <<Num(5), Word("Magical")>>
Magical5Physical3 == <<Num(5), Word("Magical"), Num(3), Word("Physical")>>
\* "4 Negative Energy 6 Physical": a two-word type ahead of another type
Negative4Physical6 == <<Num(4), Word("Negative"), Word("Energy"), Num(6), Word("Physical")>>
Physical0 == <<Num(0), Word("Physical")>>

\* the alphabet for the attribution rules: one second apart
AttributionEvents ==
    { AttackEv(Hero, Orc, "hit", FALSE, 10), AttackEv(Hero, Orc, "hit", FALSE, 11),
      AttackEv(Hero, Orc, "critical hit", FALSE, 10), AttackEv(HeroWolf, Orc, "hit", FALSE, 10),
      DamageEv(Hero, Orc, 5, Physical5, 10),
      DamageEv(Hero, Orc, 5, Physical5, 11), DamageEv(Hero, Orc, 5, Fire5, 11),
      DamageEv(Hero, Orc, 5, Magical5, 11), DamageEv(Hero, Orc, 8, Magical5Physical3, 11),
      DamageEv(HeroWolf, Orc, 5, Physical5, 11),
      SpellResistEv(Orc, "Fireball", 10), SpellResistEv(Orc, "Fireball", 11),
      SpellResistEv(Orc, "Magic Missile", 10),
      SaveEv(Orc, 11), AbsorbEv("Absorb", Orc, 3, "Fire", 11),
      OtherEv("Casts", 11), OtherEv("PartyChat", 11) }

\* the alphabet for the encounter boundaries and the expiry windows
SegmentationEvents ==
    { DamageEv(Hero, Orc, 5, Physical5, 96),
      DamageEv(Hero, Orc, 5, Physical5, 100), DamageEv(Hero, Orc, 5, Physical5, 103),
      DamageEv(Hero, Orc, 5, Physical5, 106), DamageEv(Hero, Orc, 5, Physical5, 107),
      DamageEv(Hero, Orc, 5, Physical5, 112), DamageEv(Hero, Orc, 0, Physical0, 112),
      DamageEv(Hero, Imp, 10, Negative4Physical6, 103),
      AttackEv(Hero, Orc, "hit", FALSE, 103), AttackEv(Orc, Hero, "miss", TRUE, 100),
      SpellResistEv(Orc, "Fireball", 103), SpellResistEv(Imp, "Magic Missile", 100),
      SaveEv(Orc, 103), AbsorbEv("AbsorbResistance", Orc, 3, "", 112),
      AbsorbEv("AbsorbReduction", Hero, 2, "", 100),
      OtherEv("Casting", 112), OtherEv("Resting", 112) }

\* the alphabet for the spell tracker: two targets, four spells, the two windows
TrackerEvents ==
    { DamageEv(Hero, Orc, 5, Physical5, 100), DamageEv(Hero, Orc, 5, Physical5, 106),
      DamageEv(Hero, Orc, 5, Physical5, 107), DamageEv(Hero, Orc, 5, Magical5, 106),
      DamageEv(Hero, Orc, 5, Magical5, 107), DamageEv(Hero, Orc, 5, Fire5, 106),
      AttackEv(Hero, Orc, "hit", FALSE, 103),
      SpellResistEv(Orc, "Fireball", 100), SpellResistEv(Orc, "Ice Storm", 100),
      SpellResistEv(Imp, "Fireball", 106),
      SpellResistEv(Orc, "Magic Missile", 100), SpellResistEv(Imp, "Magic Missile", 100),
      SpellResistEv(Orc, "Flame Arrow", 103),
      SaveEv(Orc, 100), AbsorbEv("Absorb", Orc, 3, "Fire", 106),
      OtherEv("Casts", 100), OtherEv("PlayerJoin", 100) }

\* the alphabet for a play session: the six administrative lines, late, among combat lines
SessionEvents ==
    { DamageEv(Hero, Orc, 5, Physical5, 100), DamageEv(Hero, Orc, 5, Physical5, 106),
      AttackEv(Hero, Orc, "hit", FALSE, 103),
      SpellResistEv(Orc, "Fireball", 103), SpellResistEv(Orc, "Magic Missile", 103),
      SaveEv(Orc, 103), AbsorbEv("Absorb", Orc, 3, "Fire", 106), OtherEv("Casting", 103),
      OtherEv("PlayerJoin", 112), OtherEv("PlayerChat", 112), OtherEv("PartyChat", 112),
      OtherEv("PartyJoin", 112), OtherEv("Resting", 112), OtherEv("BuffExpired", 112) }

\* the largest half of the counter's range: two of them pass the limit
HalfRange == U32_MAX_PAIRS \div 2 + 1

\* the alphabet for the counters' limit: amounts that a u32 parse accepts
OverflowEvents ==
    { DamageEv(Hero, Orc, HalfRange, <<Num(HalfRange), Word("Physical")>>, 100),
      DamageEv(Imp, Orc, HalfRange, <<Num(HalfRange), Word("Fire")>>, 101),
      DamageEv(Hero, Orc, 5, Physical5, 102),
      AttackEv(Hero, Orc, "hit", FALSE, 100),
      SpellResistEv(Orc, "Fireball", 100), SaveEv(Orc, 100),
      AbsorbEv("Absorb", Orc, HalfRange, "Fire", 101),
      OtherEv("Casts", 100), OtherEv("Resting", 101) }

Events ==
    CASE feed = "attribution" -> AttributionEvents
      [] feed = "overflow" -> OverflowEvents
      [] feed = "session" -> SessionEvents
      [] feed = "segmentation" -> SegmentationEvents
      [] feed = "tracker" -> TrackerEvents
      [] OTHER -> {}

NoEvent == OtherEv("None", 0)

-----------------------------------------------------------------------------
(* Initial state: watcher.rs 685-690 and main.rs of the application *)

InitEngine ==
    /\ encounters = EmptyMap
    /\ encounter_counter = 1
    /\ current_encounter = None
    /\ last_combat_time = 0
    /\ spell_contexts = <<>>
    /\ pending_attacks = <<>>
    /\ pending_spells = <<>>
    /\ long_duration_spells = <<>>

NoOutcome == [ damage_source |-> <<>>, is_from_crit |-> FALSE, is_weapon_buff_damage |-> FALSE,
               rule |-> "none", used |-> {} ]

InitHistory ==
    /\ steps = 0
    /\ last = [ ev |-> NoEvent, started |-> FALSE, out |-> NoOutcome, pre |-> State,
                pre_damage_time |-> None, pre_consumed |-> {} ]
    /\ consumed = {}
    /\ prev_damage_time = None
    /\ damage_log = <<>>

InitAgg ==
    /\ aggA = CombatantStats_default
    /\ aggB = CombatantStats_default
    /\ aggC = CombatantStats_default
    /\ aggOut = None

Mutexes ==
    { "encounters", "current_encounter_id", "encounter_counter", "log_reload_requested",
      "player_registry", "buff_tracker", "settings" }

\* main.rs 24-26, NwnLogApp::new, watcher.rs 682-705
InitThreads ==
    /\ mutex = [m \in Mutexes |-> "free"]
    /\ current_encounter_id = None
    /\ log_reload_requested = FALSE
    /\ current_log_path = None
    /\ wpc = "loop"
    /\ wline = NoEvent
    /\ worker_new_id = 0
    /\ upc = "idle"
    /\ ui_result = "empty"
    /\ mutations = {}

-----------------------------------------------------------------------------
(* parse_log_line (src/src/parsing/line_parser.rs 43-196) and              *)
(* parse_timestamp (src/src/utils/time.rs 16-35)                            *)

\* a u64 is four 16-bit limbs, the lowest first
LimbBase == 65536
U64(n) == <<n % LimbBase, (n \div LimbBase) % LimbBase, 0, 0>>
U64_MAX == <<65535, 65535, 65535, 65535>>
\* u64::MAX / 3600, the largest hour count whose seconds fit
MostHours == <<48351, 30874, 13398, 18>>

\* x * k over u64, k below 2^15: the wrapped product and whether it left the width
Mul64(x, k) ==
    LET t1 == x[1] * k
        t2 == x[2] * k + t1 \div LimbBase
        t3 == x[3] * k + t2 \div LimbBase
        t4 == x[4] * k + t3 \div LimbBase
    IN [ value |-> <<t1 % LimbBase, t2 % LimbBase, t3 % LimbBase, t4 % LimbBase>>,
         overflow |-> t4 \div LimbBase > 0 ]

Add64(x, y) ==
    LET t1 == x[1] + y[1]
        t2 == x[2] + y[2] + t1 \div LimbBase
        t3 == x[3] + y[3] + t2 \div LimbBase
        t4 == x[4] + y[4] + t3 \div LimbBase
    IN [ value |-> <<t1 % LimbBase, t2 % LimbBase, t3 % LimbBase, t4 % LimbBase>>,
         overflow |-> t4 \div LimbBase > 0 ]

\* the text between the brackets of "[CHAT WINDOW TEXT] [...]": whether its fourth
\* word splits into three fields at ':', what parse::<u64> makes of each field (None
\* for Err), and what the text hashes to
Stamp(fields, hms, hash) == [ fields |-> fields, hms |-> hms, hash |-> hash ]
Clock(h, m, sec) == Stamp(3, <<Some(h), Some(m), Some(sec)>>, 0)

\* time.rs 31-34, the fallback
hash_timestamp(stamp) == Add64(U64(stamp.hash), <<16960, 15, 0, 0>>).value

\* time.rs 16-35: the value returned and whether the arithmetic of line 26 overflowed
parse_timestamp(stamp) ==
    IF stamp.fields = 3 /\ \A i \in 1..3 : stamp.hms[i] # None
    THEN LET hours == Mul64(Unwrap(stamp.hms[1]), 3600)
             minutes == Mul64(Unwrap(stamp.hms[2]), 60)
             sum == Add64(hours.value, minutes.value)
             all == Add64(sum.value, Unwrap(stamp.hms[3]))
         IN [ value |-> all.value,
              overflow |-> hours.overflow \/ minutes.overflow \/ sum.overflow \/ all.overflow ]
    ELSE [ value |-> hash_timestamp(stamp), overflow |-> FALSE ]

\* the checks of parse_log_line in the order of its if statements
PatternOrder ==
    << "RE_RESTING", "RE_BUFF_EXPIRED", "RE_PLAYER_JOIN", "RE_PLAYER_CHAT", "RE_PARTY_CHAT",
       "RE_PARTY_JOIN", "RE_SPELL_RESIST", "RE_SAVE", "RE_CASTING", "RE_CASTS", "RE_ATTACK",
       "RE_CONCEALMENT", "RE_DAMAGE", "RE_ABSORB", "RE_ABSORB_RESISTANCE",
       "RE_ABSORB_REDUCTION" >>

\* an order that tries the attack pattern ahead of the others
PatternOrder_attack_first ==
    << "RE_ATTACK", "RE_RESTING", "RE_BUFF_EXPIRED", "RE_PLAYER_JOIN", "RE_PLAYER_CHAT",
       "RE_PARTY_CHAT", "RE_PARTY_JOIN", "RE_SPELL_RESIST", "RE_SAVE", "RE_CASTING", "RE_CASTS",
       "RE_CONCEALMENT", "RE_DAMAGE", "RE_ABSORB", "RE_ABSORB_RESISTANCE",
       "RE_ABSORB_REDUCTION" >>

AdministrativePatterns ==
    { "RE_RESTING", "RE_BUFF_EXPIRED", "RE_PLAYER_JOIN", "RE_PLAYER_CHAT", "RE_PARTY_CHAT",
      "RE_PARTY_JOIN" }
CombatPatterns == { PatternOrder[i] : i \in DOMAIN PatternOrder } \ AdministrativePatterns

\* the variant of ParsedLine each branch returns
VariantOf(pattern) ==
    CASE pattern = "RE_RESTING" -> "Resting"
      [] pattern = "RE_BUFF_EXPIRED" -> "BuffExpired"
      [] pattern = "RE_PLAYER_JOIN" -> "PlayerJoin"
      [] pattern = "RE_PLAYER_CHAT" -> "PlayerChat"
      [] pattern = "RE_PARTY_CHAT" -> "PartyChat"
      [] pattern = "RE_PARTY_JOIN" -> "PartyJoin"
      [] pattern = "RE_SPELL_RESIST" -> "SpellResist"
      [] pattern = "RE_SAVE" -> "Save"
      [] pattern = "RE_CASTING" -> "Casting"
      [] pattern = "RE_CASTS" -> "Casts"
      [] pattern = "RE_ATTACK" -> "Attack"
      [] pattern = "RE_CONCEALMENT" -> "Attack"
      [] pattern = "RE_DAMAGE" -> "Damage"
      [] pattern = "RE_ABSORB" -> "Absorb"
      [] pattern = "RE_ABSORB_RESISTANCE" -> "AbsorbResistance"
      [] pattern = "RE_ABSORB_REDUCTION" -> "AbsorbReduction"

\* a line of the log file: the header it starts with (None when it has none), the text
\* after the header, the patterns of regex.rs that match that text
Line(stamp, text, matches) == [ stamp |-> stamp, text |-> text, matches |-> matches ]
NoLine == Line(None, "", {})

\* line_parser.rs 44-48: the header's time, the wall clock when there is no header
timestamp_of(line, now) ==
    IF line.stamp = None THEN [ value |-> now, overflow |-> FALSE ]
    ELSE parse_timestamp(Unwrap(line.stamp))

\* line_parser.rs 52-195: the first check that matches decides
parse_log_line(line, now) ==
    LET hits == { i \in DOMAIN PatternOrder : PatternOrder[i] \in line.matches }
    IN IF hits = {} THEN None
       ELSE LET first == CHOOSE i \in hits : \A j \in hits : i <= j
            IN Some([ kind |-> VariantOf(PatternOrder[first]),
                      by |-> PatternOrder[first],
                      timestamp |-> timestamp_of(line, now).value ])

\* the dev profile of the build, where overflow is checked; no line read yet
InitBuild == overflow_checks = TRUE /\ worker_panicked = FALSE
InitParser == raw_line = NoLine /\ parsed = None

\* the second run starts from the same state
InitReplica == replica = [ st |-> State, out |-> NoOutcome, iter |-> <<>> ]

InitCommon ==
    InitEngine /\ InitHistory /\ InitAgg /\ InitThreads /\ InitParser /\ InitReplica

Init == InitCommon /\ InitBuild /\ feed = "attribution"
InitSeg == InitCommon /\ InitBuild /\ feed = "segmentation"
InitTracker == InitCommon /\ InitBuild /\ feed = "tracker"
InitSession == InitCommon /\ InitBuild /\ feed = "session"
\* either build of the program: overflow checked (dev) or wrapping (release)
InitOverflow ==
    InitCommon /\ overflow_checks \in BOOLEAN /\ worker_panicked = FALSE /\ feed = "overflow"

-----------------------------------------------------------------------------
(* One call of process_parsed_line on the next event of the log *)

\* a += of processor.rs 545, 622, 650, 670 or 690 overflowed: the wrapped total
\* of some combatant of the current encounter is below its value before the line
counter_wrapped(before, after) ==
    /\ arms_run(before)
    /\ LET id == Unwrap(before.current_encounter)
       IN \E name \in DOMAIN before.encounters[id].stats :
             LET b == before.encounters[id].stats[name]
                 a == after.encounters[id].stats[name]
             IN \/ a.total_damage_dealt < b.total_damage_dealt
                \/ a.total_damage_received < b.total_damage_received
                \/ a.total_damage_absorbed < b.total_damage_absorbed

Process(ev0) ==
    /\ steps < MaxEvents
    /\ ~worker_panicked
    /\ \E ev \in {[ev0 EXCEPT !.line = steps + 1]} :
       \E seg \in {segmenter(State, ev)}, done \in {process_parsed_line(State, ev)} :
       \E panics \in {overflow_checks /\ ~is_administrative(ev) /\ counter_wrapped(seg, done)} :
       \* a panic unwinds the worker with the table's Mutex poisoned: nothing
       \* reads the engine state again, it is kept as it was before the line
       \E s2 \in {IF panics THEN State ELSE done},
          out \in {IF ev.kind = "Damage" /\ arms_run(seg) /\ ~panics
                   THEN damage_outcome(seg, ev) ELSE NoOutcome} :
          /\ worker_panicked' = panics
          /\ encounters' = s2.encounters
          /\ encounter_counter' = s2.encounter_counter
          /\ current_encounter' = s2.current_encounter
          /\ last_combat_time' = s2.last_combat_time
          /\ spell_contexts' = s2.spell_contexts
          /\ pending_attacks' = s2.pending_attacks
          /\ pending_spells' = s2.pending_spells
          /\ long_duration_spells' = s2.long_duration_spells
          /\ steps' = steps + 1
          /\ last' = [ ev |-> ev,
                       started |-> s2.encounter_counter # encounter_counter,
                       out |-> [ damage_source |-> out.damage_source,
                                 is_from_crit |-> out.is_from_crit,
                                 is_weapon_buff_damage |-> out.is_weapon_buff_damage,
                                 rule |-> out.rule, used |-> out.used ],
                       pre |-> State, pre_damage_time |-> prev_damage_time,
                       pre_consumed |-> consumed ]
          /\ consumed' = consumed \cup out.used
          /\ prev_damage_time' =
                 IF ev.kind = "Damage" /\ ev.total > 0 THEN Some(ev.timestamp)
                 ELSE prev_damage_time
          /\ damage_log' =
                 IF ev.kind = "Damage" /\ ev.total > 0
                 THEN Append(damage_log, [ timestamp |-> ev.timestamp, line |-> ev.line,
                                           total |-> ev.total,
                                           encounter |-> s2.current_encounter ])
                 ELSE damage_log
    /\ UNCHANGED <<feed, aggVars, threadVars, overflow_checks, parserVars>>

Step(ev0) == Process(ev0) /\ UNCHANGED replica

Administrative == \E ev \in Events : is_administrative(ev) /\ Step(ev)
Cast == \E ev \in Events : ev.kind \in {"Casting", "Casts"} /\ Step(ev)
SpellResist == \E ev \in Events : ev.kind = "SpellResist" /\ Step(ev)
Save == \E ev \in Events : ev.kind = "Save" /\ Step(ev)
Attack == \E ev \in Events : ev.kind = "Attack" /\ Step(ev)
Damage == \E ev \in Events : ev.kind = "Damage" /\ Step(ev)
Absorb ==
    \E ev \in Events : ev.kind \in {"Absorb", "AbsorbResistance", "AbsorbReduction"} /\ Step(ev)

Next == Administrative \/ Cast \/ SpellResist \/ Save \/ Attack \/ Damage \/ Absorb

Spec == Init /\ [][Next]_vars
SpecSeg == InitSeg /\ [][Next]_vars
SpecTracker == InitTracker /\ [][Next]_vars
SpecSession == InitSession /\ [][Next]_vars
SpecOverflow == InitOverflow /\ [][Next]_vars

-----------------------------------------------------------------------------
(* Two runs of the engine on one sequence of events.  What a run does not    *)
(* get from the events is the iteration order of each breakdown HashMap,     *)
(* which the hasher's random seed decides: each run draws its own.           *)

ReplayEvents ==
    { DamageEv(Hero, Orc, 8, Magical5Physical3, 100), DamageEv(Hero, Orc, 5, Physical5, 100),
      DamageEv(Hero, Orc, 8, Magical5Physical3, 103), DamageEv(Hero, Orc, 5, Fire5, 103),
      DamageEv(Hero, Imp, 10, Negative4Physical6, 107),
      AttackEv(Hero, Orc, "hit", FALSE, 100), AttackEv(Hero, Orc, "critical hit", FALSE, 103),
      SpellResistEv(Orc, "Fireball", 100), SpellResistEv(Orc, "Magic Missile", 100),
      SaveEv(Orc, 100), AbsorbEv("Absorb", Orc, 3, "Fire", 103),
      OtherEv("Casts", 100), OtherEv("PartyChat", 100) }

InitReplay == InitCommon /\ InitBuild /\ feed = "replay"

\* the same event handed to both runs
TwoRuns(ev1, ev2) ==
    /\ Process(ev1)
    /\ \E ev \in {[ev2 EXCEPT !.line = steps + 1]} :
       \E seg \in {segmenter(replica.st, ev)} :
       \E out \in {IF ev.kind = "Damage" /\ arms_run(seg)
                   THEN damage_outcome(seg, ev) ELSE NoOutcome} :
          replica' = [ st |-> process_parsed_line(replica.st, ev),
                       out |-> [ damage_source |-> out.damage_source,
                                 is_from_crit |-> out.is_from_crit,
                                 is_weapon_buff_damage |-> out.is_weapon_buff_damage,
                                 rule |-> out.rule, used |-> out.used ],
                       iter |-> IF ev.kind = "Damage" THEN ev.iter ELSE <<>> ]

ReplayDamage ==
    \E ev \in ReplayEvents :
        /\ ev.kind = "Damage"
        /\ \E o1, o2 \in Orders(DOMAIN ev.breakdown) :
               TwoRuns([ev EXCEPT !.iter = o1], [ev EXCEPT !.iter = o2])

ReplayOther == \E ev \in ReplayEvents : ev.kind # "Damage" /\ TwoRuns(ev, ev)

NextReplay == ReplayDamage \/ ReplayOther

SpecReplay == InitReplay /\ [][NextReplay]_vars

-----------------------------------------------------------------------------
(* The hand-off from the historical load to live tailing                    *)
(* (watcher.rs 737-779): the engine's variables are one load of the whole    *)
(* file by process_full_log_file, replica is the run of log_watcher_thread   *)
(* that loads a prefix and tails the rest                                    *)

HandoffEvents ==
    { DamageEv(Hero, Orc, 5, Physical5, 100), AttackEv(Hero, Orc, "hit", FALSE, 105),
      DamageEv(Hero, Orc, 5, Physical5, 107), SpellResistEv(Orc, "Fireball", 106) }

InitHandoff == InitCommon /\ InitBuild /\ feed = "handoff"

\* the thread tails the file once the historical load has returned
Live == wpc = "detect"

RECURSIVE most_recent_end(_, _)
\* watcher.rs 775: encounters.values().max_by_key(|e| e.end_time), its end_time
most_recent_end(encs, ids) ==
    IF ids = {} THEN 0
    ELSE LET id == CHOOSE i \in ids : TRUE
             rest == most_recent_end(encs, ids \ {id})
         IN IF encs[id].end_time > rest THEN encs[id].end_time ELSE rest

\* the thread's locals after process_full_log_file: its own trackers, cleared at
\* 745-748, the end time of the most recent encounter for last_combat_time
\* (775-777, the local of 683 when the table is empty) and the shared id (778)
hand_off(st) ==
    [ st EXCEPT !.spell_contexts = <<>>,
                !.pending_attacks = <<>>,
                !.pending_spells = <<>>,
                !.long_duration_spells = <<>>,
                !.last_combat_time = IF DOMAIN st.encounters = {} THEN 0
                                     ELSE most_recent_end(st.encounters, DOMAIN st.encounters),
                !.current_encounter = st.current_encounter ]

\* a line of the file: in one run a line of the load, in the other a line of
\* the load or of the tail
HandoffLine == \E ev \in HandoffEvents : TwoRuns(ev, ev)

\* process_full_log_file returns to the thread
HandOff ==
    /\ feed = "handoff"
    /\ wpc = "loop"
    /\ wpc' = "detect"
    /\ replica' = [replica EXCEPT !.st = hand_off(@)]
    /\ UNCHANGED <<engineVars, histVars, feed, aggVars, buildVars, parserVars>>
    /\ UNCHANGED <<mutex, current_encounter_id, log_reload_requested, current_log_path,
                   wline, worker_new_id, mutations, upc, ui_result>>

NextHandoff == HandoffLine \/ HandOff

SpecHandoff == InitHandoff /\ [][NextHandoff]_vars

-----------------------------------------------------------------------------
(* The worker reading lines: each line of the file goes through             *)
(* parse_log_line (watcher.rs 538, 1218)                                     *)

\* texts of log lines with the patterns of regex.rs that match each
Texts ==
    { <<"Resting.", {"RE_RESTING"}>>,
      <<"Bless has worn off.", {"RE_BUFF_EXPIRED"}>>,
      <<"bob has joined as a player..", {"RE_PLAYER_JOIN"}>>,
      <<"[bob] Hero: [Talk] Orc attacks Hero : *hit*", {"RE_PLAYER_CHAT", "RE_ATTACK"}>>,
      <<"Hero : [Party] Orc attacks Hero : *hit*", {"RE_PARTY_CHAT", "RE_ATTACK"}>>,
      <<"Hero : [Party] Orc damages Hero: 5 (5 Physical)", {"RE_PARTY_CHAT", "RE_DAMAGE"}>>,
      <<"Hero has joined the party.", {"RE_PARTY_JOIN"}>>,
      <<"Hero has joined the party. Orc damages Hero: 5 (5 Physical)",
        {"RE_PARTY_JOIN", "RE_DAMAGE"}>>,
      <<"Hero casting Fireball has worn off.", {"RE_BUFF_EXPIRED", "RE_CASTING"}>>,
      <<"Hero casts Bless wore off", {"RE_BUFF_EXPIRED", "RE_CASTS"}>>,
      <<"SPELL RESIST: Orc attempts to resist: Fireball - Result: FAILED", {"RE_SPELL_RESIST"}>>,
      <<"SAVE: Orc : Reflex vs. Fire : *failed*", {"RE_SAVE"}>>,
      <<"Hero casting Fireball", {"RE_CASTING"}>>,
      <<"Hero casts Fireball", {"RE_CASTS"}>>,
      <<"Hero casts Orc attacks Imp : *hit*", {"RE_CASTS", "RE_ATTACK"}>>,
      <<"Hero attacks Orc : *hit*", {"RE_ATTACK"}>>,
      <<"Hero attacks Orc : *target concealed: 50%* : (12 + 5 = 17)", {"RE_CONCEALMENT"}>>,
      <<"Hero damages Orc: 5 (5 Physical)", {"RE_DAMAGE"}>>,
      <<"Orc : Damage Immunity absorbs 3 point(s) of Fire", {"RE_ABSORB"}>>,
      <<"Orc : Damage Resistance absorbs 3 damage", {"RE_ABSORB_RESISTANCE"}>>,
      <<"Orc : Damage Reduction absorbs 3 damage", {"RE_ABSORB_REDUCTION"}>>,
      <<"Hero : Initiative Roll : 12", {}>>,
      <<"hello world", {}>>,
      <<"", {}>> }

\* headers: none; "Tue Jul 29 14:10:26"; "Tue Jul 29 23:59:59"; one of two words; one
\* whose seconds are not a number; hours of u64::MAX; the largest hours that fit, then
\* ten minutes more
Stamps ==
    { None,
      Some(Clock(U64(14), U64(10), U64(26))),
      Some(Clock(U64(23), U64(59), U64(59))),
      Some(Stamp(0, <<None, None, None>>, 7)),
      Some(Stamp(3, <<Some(U64(14)), Some(U64(10)), None>>, 11)),
      Some(Clock(U64_MAX, U64(0), U64(0))),
      Some(Clock(MostHours, U64(10), U64(0))) }

InitLines == InitCommon /\ overflow_checks \in BOOLEAN /\ worker_panicked = FALSE /\ feed = "lines"

\* one line read and parsed; an overflow in parse_timestamp panics where the build
\* checks overflow and wraps where it does not
ParseLine ==
    /\ ~worker_panicked
    /\ \E text \in Texts, stamp \in Stamps, now \in {U64(100)} :
          LET line == Line(stamp, text[1], text[2])
              panics == overflow_checks /\ timestamp_of(line, now).overflow
          IN /\ raw_line' = line
             /\ parsed' = IF panics THEN None ELSE parse_log_line(line, now)
             /\ worker_panicked' = panics
    /\ UNCHANGED <<engineVars, histVars, feed, aggVars, threadVars, overflow_checks, replica>>

NextLines == ParseLine

SpecLines == InitLines /\ [][NextLines]_vars

-----------------------------------------------------------------------------
(* The combined views: one combatant's CombatantStats in three encounters    *)
(* (aggA, aggB, aggC), built by the engine's own updates, and the results of *)
(* NwnLogApp::aggregate_stats on them.                                       *)

AggTimes == {10, 15, 20}
Operands == {"A", "B", "C"}

InitAggregator == InitCommon /\ InitBuild /\ feed = "aggregator"

\* the operand named which becomes cs
SetOperand(which, cs) ==
    /\ steps < MaxAggOps
    /\ steps' = steps + 1
    /\ aggA' = IF which = "A" THEN cs ELSE aggA
    /\ aggB' = IF which = "B" THEN cs ELSE aggB
    /\ aggC' = IF which = "C" THEN cs ELSE aggC
    /\ aggOut' = None
    /\ UNCHANGED <<engineVars, last, consumed, prev_damage_time, damage_log, feed, threadVars,
                   buildVars, parserVars, replica>>

Operand(which) == CASE which = "A" -> aggA [] which = "B" -> aggB [] OTHER -> aggC

\* processor.rs 341-361: Hero's attack roll, a miss by concealment or a hit
RecordAttack ==
    \E which \in Operands, t \in AggTimes, concealed \in BOOLEAN :
        SetOperand(which,
                   attack_stats(Operand(which),
                                AttackEv(Hero, Orc, IF concealed THEN "miss" ELSE "hit",
                                         concealed, t)))

\* processor.rs 541-616: damage dealt by Hero
RecordDamageDealt ==
    \E which \in Operands, t \in AggTimes :
        SetOperand(which,
                   attacker_stats_update(Operand(which), DamageEv(Hero, Orc, 5, Physical5, t),
                                         SourceAttack, SourceAttack, FALSE, FALSE))

\* processor.rs 618-645: damage received by Hero
RecordDamageReceived ==
    \E which \in Operands, t \in AggTimes :
        SetOperand(which,
                   target_stats_update(Operand(which), DamageEv(Orc, Hero, 5, Fire5, t),
                                       Orc, SourceAttack))

\* app.rs 146-188: the folds of the selection view and of the overall view
Combine ==
    /\ aggOut = None
    /\ aggOut' = Some([ ab |-> aggregate_stats(aggA, aggB),
                        ba |-> aggregate_stats(aggB, aggA),
                        a_bc |-> aggregate_stats(aggA, aggregate_stats(aggB, aggC)),
                        ab_c |-> aggregate_stats(aggregate_stats(aggA, aggB), aggC),
                        fold_abc |-> aggregate_stats(aggregate_stats(aggregate_stats(
                                         CombatantStats_default, aggA), aggB), aggC),
                        fold_cba |-> aggregate_stats(aggregate_stats(aggregate_stats(
                                         CombatantStats_default, aggC), aggB), aggA),
                        a_empty |-> aggregate_stats(aggA, CombatantStats_default),
                        \* app.rs 152-156: the selection view over the one encounter of aggA
                        empty_a |-> aggregate_stats(CombatantStats_default, aggA) ])
    /\ UNCHANGED <<engineVars, histVars, feed, aggA, aggB, aggC, threadVars, buildVars,
                   parserVars, replica>>

NextAgg == RecordAttack \/ RecordDamageDealt \/ RecordDamageReceived \/ Combine

SpecAgg == InitAggregator /\ [][NextAgg]_vars

-----------------------------------------------------------------------------
(* The two threads: log_watcher_thread (the worker, watcher.rs 673-1329 with *)
(* process_parsed_line) and the presentation thread (gui/app.rs, gui/ui.rs), *)
(* at the grain of the Mutex operations on the shared state.  A thread that  *)
(* stands at a lock() site whose Mutex another thread holds is waiting.      *)

MaxLines == 3

ThreadEvents ==
    { DamageEv(Hero, Orc, 5, Physical5, 100), DamageEv(Hero, Orc, 5, Physical5, 112),
      AttackEv(Hero, Orc, "hit", FALSE, 103), OtherEv("Resting", 112),
      OtherEv("Casts", 103), OtherEv("PlayerChat", 100) }

\* the lines of the log that carry the counters to their limit as well
ReloadEvents ==
    ThreadEvents \cup {DamageEv(Hero, Orc, HalfRange, <<Num(HalfRange), Word("Physical")>>, 100)}

LineAlphabet == IF feed = "reload" THEN ReloadEvents ELSE ThreadEvents

\* log lines read under the fair specification
MaxReloadLines == 2
LineBound == IF feed = "reload" THEN MaxReloadLines ELSE MaxLines

InitWatcher == InitCommon /\ InitBuild /\ feed = "threads"

InitReload ==
    InitCommon /\ overflow_checks \in BOOLEAN /\ worker_panicked = FALSE /\ feed = "reload"

Free(m) == mutex[m] = "free"
Wrote(thread, object) == mutations \cup {<<thread, object>>}

\* the Mutex that each lock() site of the worker asks for
WorkerSite ==
    [ loop |-> "log_reload_requested", loop_settings |-> "settings",
      line_settings |-> "settings",
      admin_registry |-> "player_registry", admin_buff |-> "buff_tracker",
      casts_registry |-> "player_registry", casts_buff |-> "buff_tracker",
      reload_encounters |-> "encounters", reload_current |-> "current_encounter_id",
      reload_counter |-> "encounter_counter",
      switch_encounters |-> "encounters", switch_current |-> "current_encounter_id",
      switch_counter |-> "encounter_counter",
      switch_store |-> "current_encounter_id", switch_sync |-> "current_encounter_id",
      line_counter |-> "encounter_counter", line_insert |-> "encounters",
      line_process |-> "encounters", line_publish |-> "current_encounter_id",
      line_most_damaged |-> "encounters" ]

\* the Mutex that each lock() site of the presentation thread asks for
UiSite ==
    [ options |-> "settings",
      confirm_encounters |-> "encounters", confirm_current |-> "current_encounter_id",
      confirm_counter |-> "encounter_counter", confirm_settings |-> "settings",
      confirm_reload |-> "log_reload_requested",
      buff_window |-> "buff_tracker", buff_flash |-> "settings",
      names |-> "player_registry" ]

ThreadFrame == UNCHANGED <<histVars, feed, aggVars, buildVars, parserVars, replica>>
TrackerFrame ==
    UNCHANGED <<spell_contexts, pending_attacks, pending_spells, long_duration_spells>>
LocalFrame == TrackerFrame /\ UNCHANGED <<current_encounter, last_combat_time>>
UiFrame == UNCHANGED <<upc, ui_result>>
WorkerFrame == UNCHANGED <<current_log_path, wpc, wline, worker_new_id>>

\* watcher.rs 709-711: the reload flag is locked; held on when it is set
W_LockReloadFlag ==
    /\ wpc = "loop"
    /\ Free("log_reload_requested")
    /\ IF log_reload_requested
       THEN /\ mutex' = [mutex EXCEPT !["log_reload_requested"] = "worker"]
            /\ wpc' = "reload_encounters"
       ELSE /\ wpc' = "loop_settings"
            /\ UNCHANGED mutex
    /\ UNCHANGED <<engineVars, current_encounter_id, log_reload_requested, current_log_path,
                   wline, worker_new_id, mutations>>
    /\ UiFrame /\ ThreadFrame

\* watcher.rs 714 and 743: encounters.lock().unwrap().clear()
W_ClearEncounters ==
    /\ wpc \in {"reload_encounters", "switch_encounters"}
    /\ Free("encounters")
    /\ encounters' = EmptyMap
    /\ mutations' = Wrote("worker", "encounters")
    /\ wpc' = IF wpc = "reload_encounters" THEN "reload_current" ELSE "switch_current"
    /\ UNCHANGED <<encounter_counter, mutex, current_encounter_id, log_reload_requested,
                   current_log_path, wline, worker_new_id>>
    /\ LocalFrame /\ UiFrame /\ ThreadFrame

\* watcher.rs 715 and 744: *current_encounter_id.lock().unwrap() = None
W_ClearCurrentId ==
    /\ wpc \in {"reload_current", "switch_current"}
    /\ Free("current_encounter_id")
    /\ current_encounter_id' = None
    /\ mutations' = Wrote("worker", "current_encounter_id")
    /\ wpc' = IF wpc = "reload_current" THEN "reload_counter" ELSE "switch_counter"
    /\ UNCHANGED <<encounters, encounter_counter, mutex, log_reload_requested,
                   current_log_path, wline, worker_new_id>>
    /\ LocalFrame /\ UiFrame /\ ThreadFrame

\* watcher.rs 716-726 and 745-750: the counter back to 1 and the trackers emptied;
\* after a reload the path is forgotten, the flag reset and its Mutex released
W_ResetCounter ==
    /\ wpc \in {"reload_counter", "switch_counter"}
    /\ Free("encounter_counter")
    /\ encounter_counter' = 1
    /\ mutations' = Wrote("worker", "encounter_counter")
    /\ spell_contexts' = <<>>
    /\ pending_attacks' = <<>>
    /\ pending_spells' = <<>>
    /\ long_duration_spells' = <<>>
    /\ IF wpc = "reload_counter"
       THEN /\ current_log_path' = None
            /\ log_reload_requested' = FALSE
            /\ mutex' = [mutex EXCEPT !["log_reload_requested"] = "free"]
            /\ wpc' = "loop_settings"
       ELSE /\ wpc' = "switch_store"
            /\ UNCHANGED <<current_log_path, log_reload_requested, mutex>>
    /\ UNCHANGED <<encounters, current_encounter, last_combat_time, current_encounter_id,
                   wline, worker_new_id>>
    /\ UiFrame /\ ThreadFrame

\* watcher.rs 731-735: settings.lock() for the log directory, the guard dropped
W_ReadLogDirectory ==
    /\ wpc = "loop_settings"
    /\ Free("settings")
    /\ wpc' = "detect"
    /\ UNCHANGED <<engineVars, mutex, current_encounter_id, log_reload_requested,
                   current_log_path, wline, worker_new_id, mutations>>
    /\ UiFrame /\ ThreadFrame

\* watcher.rs 737-741: a log file is found and it is not the current one
W_DetectLogFile ==
    /\ wpc = "detect"
    /\ current_log_path = None
    /\ current_log_path' = Some("nwclientLog1.txt")
    /\ wpc' = "switch_encounters"
    /\ UNCHANGED <<engineVars, mutex, current_encounter_id, log_reload_requested, wline,
                   worker_new_id, mutations>>
    /\ UiFrame /\ ThreadFrame

\* watcher.rs 762 with 658: process_full_log_file on a file that holds no line
\* yet stores its own current_encounter, None, in the shared id
W_StoreHistoricalId ==
    /\ wpc = "switch_store"
    /\ Free("current_encounter_id")
    /\ current_encounter_id' = None
    /\ mutations' = Wrote("worker", "current_encounter_id")
    /\ wpc' = "switch_sync"
    /\ UNCHANGED <<engineVars, mutex, log_reload_requested, current_log_path, wline,
                   worker_new_id>>
    /\ UiFrame /\ ThreadFrame

\* watcher.rs 778: current_encounter = *current_encounter_id.lock().unwrap()
W_SyncCurrent ==
    /\ wpc = "switch_sync"
    /\ Free("current_encounter_id")
    /\ current_encounter' = current_encounter_id
    /\ wpc' = "detect"
    /\ UNCHANGED <<encounters, encounter_counter, last_combat_time, mutex,
                   current_encounter_id, log_reload_requested, current_log_path, wline,
                   worker_new_id, mutations>>
    /\ TrackerFrame /\ UiFrame /\ ThreadFrame

\* the guard of watcher.rs 1253 once current_settings is made: its scope has ended
\* a guard that lives on to the end of the line's block
settings_guard_after_clone_kept(mu) == [mu EXCEPT !["settings"] = "worker"]

settings_guard_after_clone(mu) == mu

\* the guards a thread holds are dropped where their block ends
EndOfBlock(mu, thread) == [m \in Mutexes |-> IF mu[m] = thread THEN "free" ELSE mu[m]]

\* watcher.rs 1253-1257: settings.lock(), settings_guard.clone()
W_CloneSettings ==
    /\ wpc = "detect"
    /\ current_log_path # None
    /\ steps < LineBound
    /\ Free("settings")
    /\ mutex' = settings_guard_after_clone(mutex)
    /\ wpc' = "line_read"
    /\ UNCHANGED <<engineVars, current_encounter_id, log_reload_requested,
                   current_log_path, wline, worker_new_id, mutations>>
    /\ UiFrame /\ ThreadFrame

\* processor.rs 27-159: the identity lines take the registry, PlayerJoin and
\* PlayerChat of the main player the buff tracker inside it (49, 81)
W_AdminRegistry ==
    /\ wpc = "admin_registry"
    /\ Free("player_registry")
    /\ \/ /\ wline.kind \in {"PlayerJoin", "PlayerChat"}
          /\ mutex' = [mutex EXCEPT !["player_registry"] = "worker"]
          /\ wpc' = "admin_buff"
       \/ /\ wpc' = "line_publish"
          /\ UNCHANGED mutex
    /\ UNCHANGED <<engineVars, current_encounter_id, log_reload_requested,
                   current_log_path, wline, worker_new_id, mutations>>
    /\ UiFrame /\ ThreadFrame

\* processor.rs 49, 81, 142, 151: buff_tracker.lock(); the arm returns, its guards dropped
W_AdminBuff ==
    /\ wpc = "admin_buff"
    /\ Free("buff_tracker")
    /\ mutex' = [mutex EXCEPT !["player_registry"] = "free"]
    /\ wpc' = "line_publish"
    /\ UNCHANGED <<engineVars, current_encounter_id, log_reload_requested,
                   current_log_path, wline, worker_new_id, mutations>>
    /\ UiFrame /\ ThreadFrame

\* watcher.rs 781-800, 572-587 and processor.rs 25-174, 196-198: the next line is
\* read and classified; the early returns and should_start_new use locals only
W_ReadLine ==
    /\ wpc = "line_read"
    /\ \E ev \in LineAlphabet :
          /\ wline' = ev
          /\ wpc' = IF ev.kind \in {"PlayerJoin", "PlayerChat", "PartyChat", "PartyJoin"}
                    THEN "admin_registry"
                    ELSE IF ev.kind \in {"Resting", "BuffExpired"} THEN "admin_buff"
                    ELSE IF should_start_new(State, ev) THEN "line_counter"
                    ELSE "line_process"
          /\ last_combat_time' =
                 IF ~is_administrative(ev) /\ ~should_start_new(State, ev)
                 THEN segmenter(State, ev).last_combat_time
                 ELSE last_combat_time
    /\ steps' = steps + 1
    /\ UNCHANGED <<encounters, encounter_counter, current_encounter, mutex,
                   current_encounter_id, log_reload_requested, current_log_path,
                   worker_new_id, mutations>>
    /\ UNCHANGED <<last, consumed, prev_damage_time, damage_log, feed, aggVars, buildVars,
                   parserVars, replica>>
    /\ TrackerFrame /\ UiFrame

\* processor.rs 177-182: the counter is read and incremented under its Mutex
W_TakeId ==
    /\ wpc = "line_counter"
    /\ Free("encounter_counter")
    /\ worker_new_id' = encounter_counter
    /\ encounter_counter' = encounter_counter + 1
    /\ mutations' = Wrote("worker", "encounter_counter")
    /\ wpc' = "line_insert"
    /\ UNCHANGED <<encounters, mutex, current_encounter_id, log_reload_requested,
                   current_log_path, wline>>
    /\ LocalFrame /\ UiFrame /\ ThreadFrame

\* processor.rs 184-198: the new encounter is inserted under the table's Mutex,
\* then the locals are set
W_Insert ==
    /\ wpc = "line_insert"
    /\ Free("encounters")
    /\ LET s1 == segmenter([State EXCEPT !.encounter_counter = worker_new_id], wline)
       IN /\ encounters' = s1.encounters
          /\ current_encounter' = s1.current_encounter
          /\ last_combat_time' = s1.last_combat_time
          /\ spell_contexts' = s1.spell_contexts
          /\ pending_attacks' = s1.pending_attacks
          /\ pending_spells' = s1.pending_spells
          /\ long_duration_spells' = s1.long_duration_spells
    /\ mutations' = Wrote("worker", "encounters")
    /\ wpc' = "line_process"
    /\ UNCHANGED <<encounter_counter, mutex, current_encounter_id, log_reload_requested,
                   current_log_path, wline, worker_new_id>>
    /\ UiFrame /\ ThreadFrame

\* processor.rs 200-201: the table's Mutex is taken and kept for the whole match
W_LockEncounters ==
    /\ wpc = "line_process"
    /\ Free("encounters")
    /\ mutex' = [mutex EXCEPT !["encounters"] = "worker"]
    /\ wpc' = IF wline.kind = "Casts" THEN "casts_registry" ELSE "line_arms"
    /\ UNCHANGED <<engineVars, current_encounter_id, log_reload_requested, current_log_path,
                   wline, worker_new_id, mutations>>
    /\ UiFrame /\ ThreadFrame

\* processor.rs 210-216: the Casts arm of a live line takes the registry under the
\* table's guard; the buff tracker follows when the caster is the main player
W_CastsRegistry ==
    /\ wpc = "casts_registry"
    /\ Free("player_registry")
    /\ \/ /\ mutex' = [mutex EXCEPT !["player_registry"] = "worker"]
          /\ wpc' = "casts_buff"
       \/ /\ wpc' = "line_arms"
          /\ UNCHANGED mutex
    /\ UNCHANGED <<engineVars, current_encounter_id, log_reload_requested,
                   current_log_path, wline, worker_new_id, mutations>>
    /\ UiFrame /\ ThreadFrame

\* processor.rs 219-225: buff_tracker.lock() under the table's and the registry's guards
W_CastsBuff ==
    /\ wpc = "casts_buff"
    /\ Free("buff_tracker")
    /\ mutex' = [mutex EXCEPT !["player_registry"] = "free"]
    /\ wpc' = "line_arms"
    /\ UNCHANGED <<engineVars, current_encounter_id, log_reload_requested,
                   current_log_path, wline, worker_new_id, mutations>>
    /\ UiFrame /\ ThreadFrame

\* processor.rs 202-718: end_time and the arm of the line, then the guard is dropped
W_Arms ==
    /\ wpc = "line_arms"
    /\ \E s2 \in {match_arms(State, wline)} :
       \E panics \in {overflow_checks /\ counter_wrapped(State, s2)} :
          /\ encounters' = IF panics THEN encounters ELSE s2.encounters
          /\ spell_contexts' = IF panics THEN spell_contexts ELSE s2.spell_contexts
          /\ pending_attacks' = IF panics THEN pending_attacks ELSE s2.pending_attacks
          /\ pending_spells' = IF panics THEN pending_spells ELSE s2.pending_spells
          /\ long_duration_spells' =
                 IF panics THEN long_duration_spells ELSE s2.long_duration_spells
          /\ mutations' = IF arms_run(State) /\ ~panics
                          THEN Wrote("worker", "encounters") ELSE mutations
          /\ worker_panicked' = panics
          /\ mutex' = [mutex EXCEPT !["encounters"] = IF panics THEN "poisoned" ELSE "free"]
          /\ wpc' = IF panics THEN "panicked" ELSE "line_publish"
    /\ UNCHANGED <<encounter_counter, current_encounter, last_combat_time,
                   current_encounter_id, log_reload_requested, current_log_path, wline,
                   worker_new_id>>
    /\ UNCHANGED <<histVars, feed, aggVars, overflow_checks, parserVars, replica>>
    /\ UiFrame

\* watcher.rs 1277-1285: the shared id follows the worker's local
W_Publish ==
    /\ wpc = "line_publish"
    /\ Free("current_encounter_id")
    /\ current_encounter_id' = current_encounter
    /\ mutations' = IF current_encounter_id # current_encounter
                    THEN Wrote("worker", "current_encounter_id") ELSE mutations
    /\ wpc' = IF current_encounter # None THEN "line_most_damaged" ELSE "detect"
    /\ mutex' = IF current_encounter # None THEN mutex ELSE EndOfBlock(mutex, "worker")
    /\ UNCHANGED <<engineVars, log_reload_requested, current_log_path, wline,
                   worker_new_id>>
    /\ UiFrame /\ ThreadFrame

\* watcher.rs 1287-1294: update_most_damaged on the current encounter
W_MostDamaged ==
    /\ wpc = "line_most_damaged"
    /\ Free("encounters")
    /\ wpc' = "detect"
    /\ mutex' = EndOfBlock(mutex, "worker")
    /\ UNCHANGED <<engineVars, current_encounter_id, log_reload_requested,
                   current_log_path, wline, worker_new_id, mutations>>
    /\ UiFrame /\ ThreadFrame

\* watcher.rs 1327: nothing more to read, the loop sleeps and starts over
W_Sleep ==
    /\ wpc = "detect"
    /\ current_log_path # None
    /\ wpc' = "loop"
    /\ UNCHANGED <<engineVars, mutex, current_encounter_id, log_reload_requested,
                   current_log_path, wline, worker_new_id, mutations>>
    /\ UiFrame /\ ThreadFrame

\* gui/app.rs 110: current_encounter_id.try_lock() of get_current_stats
UI_TryCurrentId ==
    /\ upc = "idle"
    /\ IF Free("current_encounter_id")
       THEN /\ mutex' = [mutex EXCEPT !["current_encounter_id"] = "ui"]
            /\ upc' = "stats_id"
            /\ UNCHANGED ui_result
       ELSE /\ ui_result' = "empty"
            /\ UNCHANGED <<mutex, upc>>
    /\ UNCHANGED <<engineVars, current_encounter_id, log_reload_requested, mutations>>
    /\ WorkerFrame /\ ThreadFrame

\* gui/app.rs 111-112: with an id, encounters.try_lock(); else the empty table (122)
UI_TryEncounters ==
    /\ upc = "stats_id"
    /\ IF current_encounter_id # None /\ Free("encounters")
       THEN /\ mutex' = [mutex EXCEPT !["encounters"] = "ui"]
            /\ upc' = "stats_read"
            /\ UNCHANGED ui_result
       ELSE /\ mutex' = [mutex EXCEPT !["current_encounter_id"] = "free"]
            /\ upc' = "idle"
            /\ ui_result' = "empty"
    /\ UNCHANGED <<engineVars, current_encounter_id, log_reload_requested, mutations>>
    /\ WorkerFrame /\ ThreadFrame

\* gui/app.rs 113-119: the current encounter's stats are cloned, both guards dropped
UI_ReadCurrent ==
    /\ upc = "stats_read"
    /\ ui_result' = IF Unwrap(current_encounter_id) \in DOMAIN encounters
                    THEN "data" ELSE "empty"
    /\ mutex' = [mutex EXCEPT !["encounters"] = "free", !["current_encounter_id"] = "free"]
    /\ upc' = "idle"
    /\ UNCHANGED <<engineVars, current_encounter_id, log_reload_requested, mutations>>
    /\ WorkerFrame /\ ThreadFrame

\* gui/app.rs 134 and 164, gui/ui.rs 328 and 369: encounters.try_lock() of the views
UI_TryView ==
    /\ upc = "idle"
    /\ IF Free("encounters")
       THEN /\ mutex' = [mutex EXCEPT !["encounters"] = "ui"]
            /\ upc' = "view_read"
            /\ UNCHANGED ui_result
       ELSE /\ ui_result' = "empty"
            /\ UNCHANGED <<mutex, upc>>
    /\ UNCHANGED <<engineVars, current_encounter_id, log_reload_requested, mutations>>
    /\ WorkerFrame /\ ThreadFrame

\* gui/app.rs 135 and 165: the view is folded from the table, the guard dropped
UI_ReadView ==
    /\ upc = "view_read"
    /\ ui_result' = "data"
    /\ mutex' = [mutex EXCEPT !["encounters"] = "free"]
    /\ upc' = "idle"
    /\ UNCHANGED <<engineVars, current_encounter_id, log_reload_requested, mutations>>
    /\ WorkerFrame /\ ThreadFrame

\* gui/ui.rs 592-594: the options window draws its log directory row
UI_ShowOptions ==
    /\ upc = "idle"
    /\ upc' = "options"
    /\ UNCHANGED <<engineVars, mutex, current_encounter_id, log_reload_requested, ui_result,
                   mutations>>
    /\ WorkerFrame /\ ThreadFrame

\* gui/ui.rs 595, 618-619: settings_ref.lock(); under its guard the Confirm button
\* of the log directory is clicked
UI_Confirm ==
    /\ upc = "options"
    /\ Free("settings")
    /\ mutex' = [mutex EXCEPT !["settings"] = "ui"]
    /\ upc' = "confirm_encounters"
    /\ UNCHANGED <<engineVars, current_encounter_id, log_reload_requested, ui_result,
                   mutations>>
    /\ WorkerFrame /\ ThreadFrame

\* gui/ui.rs 620-622: self.encounters.lock(), encounters.clear()
UI_ClearEncounters ==
    /\ upc = "confirm_encounters"
    /\ mutex["encounters"] \in {"free", "poisoned"}
    /\ encounters' = IF Free("encounters") THEN EmptyMap ELSE encounters
    /\ mutations' = IF Free("encounters") THEN Wrote("ui", "encounters") ELSE mutations
    /\ upc' = "confirm_current"
    /\ UNCHANGED <<encounter_counter, mutex, current_encounter_id, log_reload_requested,
                   ui_result>>
    /\ LocalFrame /\ WorkerFrame /\ ThreadFrame

\* gui/ui.rs 623-625: self.current_encounter_id.lock(), *current_id = None
UI_ClearCurrentId ==
    /\ upc = "confirm_current"
    /\ Free("current_encounter_id")
    /\ current_encounter_id' = None
    /\ mutations' = Wrote("ui", "current_encounter_id")
    /\ upc' = "confirm_counter"
    /\ UNCHANGED <<engineVars, mutex, log_reload_requested, ui_result>>
    /\ WorkerFrame /\ ThreadFrame

\* gui/ui.rs 626-628: self.encounter_counter.lock(), *counter = 1
UI_ResetCounter ==
    /\ upc = "confirm_counter"
    /\ Free("encounter_counter")
    /\ encounter_counter' = 1
    /\ mutations' = Wrote("ui", "encounter_counter")
    /\ mutex' = [mutex EXCEPT !["settings"] = "free"]
    /\ upc' = "confirm_settings"
    /\ UNCHANGED <<encounters, current_encounter_id, log_reload_requested, ui_result>>
    /\ LocalFrame /\ WorkerFrame /\ ThreadFrame

\* gui/ui.rs 632-635: settings_ref.lock() again, the directory stored and saved
UI_SaveSettings ==
    /\ upc = "confirm_settings"
    /\ Free("settings")
    /\ upc' = "confirm_reload"
    /\ UNCHANGED <<engineVars, mutex, current_encounter_id, log_reload_requested, ui_result,
                   mutations>>
    /\ WorkerFrame /\ ThreadFrame

\* gui/ui.rs 637-640: self.log_reload_requested.lock(), *reload_flag = true
UI_RequestReload ==
    /\ upc = "confirm_reload"
    /\ Free("log_reload_requested")
    /\ log_reload_requested' = TRUE
    /\ upc' = "idle"
    /\ UNCHANGED <<engineVars, mutex, current_encounter_id, ui_result, mutations>>
    /\ WorkerFrame /\ ThreadFrame

\* gui/buff_window.rs 84: the buff window takes the tracker for its list
UI_BuffWindow ==
    /\ upc \in {"idle", "buff_window"}
    /\ IF upc = "idle"
       THEN /\ upc' = "buff_window"
            /\ UNCHANGED mutex
       ELSE /\ Free("buff_tracker")
            /\ mutex' = [mutex EXCEPT !["buff_tracker"] = "ui"]
            /\ upc' = "buff_flash"
    /\ UNCHANGED <<engineVars, current_encounter_id, log_reload_requested, ui_result,
                   mutations>>
    /\ WorkerFrame /\ ThreadFrame

\* gui/buff_window.rs 102-106: settings.lock() for each buff, under the tracker's
\* guard, which is dropped after the list (129)
UI_BuffFlash ==
    /\ upc = "buff_flash"
    /\ Free("settings")
    /\ mutex' = [mutex EXCEPT !["buff_tracker"] = "free"]
    /\ upc' = "idle"
    /\ UNCHANGED <<engineVars, current_encounter_id, log_reload_requested, ui_result,
                   mutations>>
    /\ WorkerFrame /\ ThreadFrame

\* gui/ui.rs 90 and 167, gui/app.rs 346 and 354: player_registry.lock() for a name
UI_ReadNames ==
    /\ upc \in {"idle", "names"}
    /\ IF upc = "idle" THEN upc' = "names"
       ELSE Free("player_registry") /\ upc' = "idle"
    /\ UNCHANGED <<engineVars, mutex, current_encounter_id, log_reload_requested, ui_result,
                   mutations>>
    /\ WorkerFrame /\ ThreadFrame

Worker ==
    \/ W_LockReloadFlag \/ W_ClearEncounters \/ W_ClearCurrentId \/ W_ResetCounter
    \/ W_ReadLogDirectory \/ W_DetectLogFile \/ W_StoreHistoricalId \/ W_SyncCurrent
    \/ W_CloneSettings \/ W_ReadLine \/ W_AdminRegistry \/ W_AdminBuff \/ W_TakeId
    \/ W_Insert \/ W_LockEncounters \/ W_CastsRegistry \/ W_CastsBuff \/ W_Arms
    \/ W_Publish \/ W_MostDamaged \/ W_Sleep

Presentation ==
    \/ UI_TryCurrentId \/ UI_TryEncounters \/ UI_ReadCurrent \/ UI_TryView \/ UI_ReadView
    \/ UI_ShowOptions \/ UI_Confirm \/ UI_ClearEncounters \/ UI_ClearCurrentId
    \/ UI_ResetCounter \/ UI_SaveSettings \/ UI_RequestReload
    \/ UI_BuffWindow \/ UI_BuffFlash \/ UI_ReadNames

NextThreads == Worker \/ Presentation

SpecThreads == InitWatcher /\ [][NextThreads]_vars

\* a blocking lock() is granted when the Mutex is free again and again, and the
\* presentation layer keeps drawing frames
SpecReload == InitReload /\ [][NextThreads]_vars /\ SF_vars(Worker) /\ WF_vars(Presentation)

-----------------------------------------------------------------------------
(* Properties *)

LastIsDamage == last.ev.kind = "Damage"
LastIsPositiveDamage == LastIsDamage /\ last.ev.total > 0

\* the statistics table of an encounter of the table
StatsOf(id) == encounters[id].stats
\* damage dealt in an encounter, over all combatants
RECURSIVE DealtOver(_, _)
DealtOver(stats, names) ==
    IF names = {} THEN 0
    ELSE LET n == CHOOSE x \in names : TRUE
         IN stats[n].total_damage_dealt + DealtOver(stats, names \ {n})
EncounterDealt(id) == DealtOver(StatsOf(id), DOMAIN StatsOf(id))

DamageTimes == [i \in 1..Len(damage_log) |-> damage_log[i].timestamp]

C1_WitnessGapOfSix ==
    /\ LastIsPositiveDamage
    /\ last.pre_damage_time = Some(100)
    /\ last.ev.timestamp = 106
    /\ ~last.started

(* C2: for every combatant of every encounter, total_damage_dealt equals the *)
(* sum of damage_by_source_dealt, of damage_by_target_dealt and of           *)
(* damage_by_type_dealt.                                                     *)
C2_ThreeDecompositionsAgree ==
    \A id \in DOMAIN encounters : \A name \in DOMAIN StatsOf(id) :
        LET cs == StatsOf(id)[name]
        IN /\ cs.total_damage_dealt = SumMap(cs.damage_by_source_dealt)
           /\ cs.total_damage_dealt = SumMap(cs.damage_by_target_dealt)
           /\ cs.total_damage_dealt = SumMap(cs.damage_by_type_dealt)

\* the two decompositions that do not pass through the breakdown conversion
C2_SourceAndTargetAgree ==
    \A id \in DOMAIN encounters : \A name \in DOMAIN StatsOf(id) :
        LET cs == StatsOf(id)[name]
        IN /\ cs.total_damage_dealt = SumMap(cs.damage_by_source_dealt)
           /\ cs.total_damage_dealt = SumMap(cs.damage_by_target_dealt)

-----------------------------------------------------------------------------
(* The Damage arm seen from outside: the lists it starts from, the entry it  *)
(* takes and the statistics before and after.                                *)

\* the last call was a Damage event that reached the Damage arm
DamageRan == LastIsDamage /\ last.out.rule # "none"

LinesOf(vec) == {vec[i].line : i \in 1..Len(vec)}
Without(vec, line) == SelectSeq(vec, LAMBDA e : e.line # line)
Within(vec, t, window) == SelectSeq(vec, LAMBDA e : t - e.timestamp <= window)

\* the three collections as the attribution finds them: a new encounter has
\* emptied the spell collections, and entries past their window are dropped
PreAttacks == Within(last.pre.pending_attacks, last.ev.timestamp, 3)
PreSpells == IF last.started THEN <<>> ELSE last.pre.pending_spells
PreLong ==
    IF last.started THEN <<>> ELSE Within(last.pre.long_duration_spells, last.ev.timestamp, 6)

NoLongMatch == \A i \in 1..Len(PreLong) : ~long_duration_matches(PreLong[i], last.ev)
WeaponBuffCase ==
    DOMAIN last.ev.breakdown = {"Fire"} /\ PreAttacks # <<>> /\ PreSpells = <<>>
SpellCandidate == oldest_spell(PreSpells, last.ev)
AttackCandidate == oldest_attack(PreAttacks, last.ev)

\* a combatant's statistics in the current encounter before and after the call
PreStats(name) ==
    IF last.started \/ last.pre.current_encounter = None THEN CombatantStats_default
    ELSE StatsEntry(last.pre.encounters[Unwrap(last.pre.current_encounter)].stats, name)
PostStats(name) == StatsEntry(StatsOf(Unwrap(current_encounter)), name)

(* C3: a Damage event attributed to a pending attack, or to a pending spell  *)
(* that is not long-duration, takes exactly one entry that was pending, and  *)
(* that entry leaves its collection: no entry that was ever taken is still   *)
(* pending, and no Damage event takes an entry that was taken before.        *)
C3_OneShotConsumption ==
    /\ consumed \cap (LinesOf(pending_attacks) \cup LinesOf(pending_spells)) = {}
    /\ last.out.used \cap last.pre_consumed = {}
    /\ (DamageRan /\ last.out.damage_source = SourceAttack /\ ~last.out.is_weapon_buff_damage)
          => \E a \in LinesOf(PreAttacks) :
                /\ last.out.used = {a}
                /\ pending_attacks = Without(PreAttacks, a)
                /\ Len(pending_attacks) = Len(PreAttacks) - 1
    /\ (DamageRan /\ last.out.rule = "spell")
          => \E sp \in LinesOf(PreSpells) :
                /\ last.out.used = {sp}
                /\ pending_spells = Without(PreSpells, sp)
                /\ Len(pending_spells) = Len(PreSpells) - 1

\* one of two pending attacks is taken and the other stays
C3_Witness ==
    /\ DamageRan
    /\ last.out.damage_source = SourceAttack
    /\ ~last.out.is_weapon_buff_damage
    /\ Len(PreAttacks) = 2
    /\ Len(pending_attacks) = 1

\* a Damage event after the only spell occurrence was taken finds no source
C3_WitnessSpellGone ==
    /\ DamageRan
    /\ last.out.rule = "unknown"
    /\ last.pre_consumed # {}
    /\ last.pre.pending_attacks = <<>>
    /\ last.pre.pending_spells = <<>>
    /\ ~last.started

(* C4: when no long-duration spell matches, the breakdown is the single type *)
(* Fire, a pending attack exists and no pending spell exists, the damage has *)
(* source Attack with the weapon-buff flag, it adds one to weapon_buffs and  *)
(* its total to weapon_buff_damage, leaves hit_damage and crit_damage alone, *)
(* and every pending attack stays pending.                                   *)
C4_WeaponBuffShortCircuit ==
    (DamageRan /\ NoLongMatch /\ WeaponBuffCase)
        => LET who == actual_attacker_of(last.ev.attacker)
           IN /\ last.out.damage_source = SourceAttack
              /\ last.out.is_weapon_buff_damage
              /\ last.out.used = {}
              /\ pending_attacks = PreAttacks
              /\ PostStats(who).weapon_buffs = PreStats(who).weapon_buffs + 1
              /\ PostStats(who).weapon_buff_damage
                    = PreStats(who).weapon_buff_damage + last.ev.total
              /\ PostStats(who).hit_damage = PreStats(who).hit_damage
              /\ PostStats(who).crit_damage = PreStats(who).crit_damage
              /\ PostStats(who).total_damage_dealt
                    = PreStats(who).total_damage_dealt + last.ev.total

C4_Witness ==
    /\ DamageRan /\ NoLongMatch /\ WeaponBuffCase
    /\ pending_attacks # <<>>
    /\ PostStats(last.ev.attacker).weapon_buff_damage = 5

\* the attack that the weapon-buff damage left pending is taken by the next damage
C4_WitnessAttackStillAvailable ==
    /\ DamageRan
    /\ last.out.rule = "attack"
    /\ PreStats(last.ev.attacker).weapon_buffs = 1
    /\ PostStats(last.ev.attacker).hit_damage = 5

(* C5: a long-duration spell with a fixed expected damage type is the source *)
(* of a Damage event only when the breakdown is the single entry of that     *)
(* type, and it is the source whenever an active one of the right caster and *)
(* target meets such a breakdown; a breakdown of several types never matches *)
(* and gets its source from the pending spells, the pending attacks or       *)
(* Unknown, the long-duration list staying as it was.                        *)
C5_LongDurationExclusivity ==
    /\ (DamageRan /\ last.out.rule = "long")
          => \E i \in 1..Len(PreLong) :
                /\ last.out.damage_source = SourceSpell(PreLong[i].spell)
                /\ PreLong[i].target = last.ev.target
                /\ PreLong[i].caster \in {last.ev.attacker, UnknownCaster}
                /\ get_spell_damage_type(PreLong[i].spell) # None
                      => DOMAIN last.ev.breakdown
                            = {Unwrap(get_spell_damage_type(PreLong[i].spell))}
    /\ (DamageRan /\ \E i \in 1..Len(PreLong) :
                        /\ PreLong[i].target = last.ev.target
                        /\ PreLong[i].caster \in {last.ev.attacker, UnknownCaster}
                        /\ get_spell_damage_type(PreLong[i].spell) # None
                        /\ DOMAIN last.ev.breakdown
                              = {Unwrap(get_spell_damage_type(PreLong[i].spell))})
          => last.out.rule = "long"
    /\ (DamageRan /\ Cardinality(DOMAIN last.ev.breakdown) > 1
                  /\ \A i \in 1..Len(PreLong) : get_spell_damage_type(PreLong[i].spell) # None)
          => /\ last.out.damage_source
                   \in {SourceAttack, SourceUnknown}
                          \cup {SourceSpell(PreSpells[i].spell) : i \in 1..Len(PreSpells)}
             /\ Len(long_duration_spells) = Len(PreLong)
             /\ \A i \in 1..Len(PreLong) : long_duration_spells[i].spell = PreLong[i].spell

\* Magic Missile is active on the target and the damage is Magical with Physical
C5_Witness ==
    /\ DamageRan
    /\ DOMAIN last.ev.breakdown = {"Magical", "Physical"}
    /\ \E i \in 1..Len(PreLong) :
          /\ PreLong[i].spell = "Magic Missile"
          /\ PreLong[i].target = last.ev.target
          /\ PreLong[i].caster \in {last.ev.attacker, UnknownCaster}
    /\ last.out.rule \in {"attack", "unknown"}

\* the same spell takes a purely Magical damage line
C5_WitnessSingleType ==
    /\ DamageRan
    /\ last.out.damage_source = SourceSpell("Magic Missile")
    /\ DOMAIN last.ev.breakdown = {"Magical"}

(* C6: a Damage event of an acting name 'P | S' adds its total to P's dealt  *)
(* statistics under the source annotated with S, records nothing under the   *)
(* name 'P | S', and is keyed by P in the target's received-by-attacker      *)
(* statistics.                                                               *)
C6_SummonAttribution ==
    (DamageRan /\ Len(last.ev.attacker) = 3 /\ last.ev.attacker[2] = SEP)
        => LET P == <<last.ev.attacker[1]>>
               S == <<last.ev.attacker[3]>>
               annotated == last.out.damage_source \o <<" (">> \o S \o <<")">>
               target == last.ev.target
           IN /\ PostStats(P).total_damage_dealt
                    = PreStats(P).total_damage_dealt + last.ev.total
              /\ annotated \in DOMAIN PostStats(P).damage_by_source_dealt
              /\ PostStats(P).damage_by_source_dealt[annotated]
                    = Get(PreStats(P).damage_by_source_dealt, annotated) + last.ev.total
              /\ DOMAIN PostStats(P).damage_by_source_dealt
                    = DOMAIN PreStats(P).damage_by_source_dealt \cup {annotated}
              /\ PostStats(P).damage_by_target_dealt[target]
                    = Get(PreStats(P).damage_by_target_dealt, target) + last.ev.total
              /\ PostStats(last.ev.attacker) = PreStats(last.ev.attacker)
              /\ PostStats(target).damage_by_attacker_received[P]
                    = Get(PreStats(target).damage_by_attacker_received, P) + last.ev.total
              /\ DOMAIN PostStats(target).damage_by_attacker_received
                    = DOMAIN PreStats(target).damage_by_attacker_received \cup {P}

\* the wolf's attack and its damage: 5 under Hero with the source "Attack (Wolf)"
C6_Witness ==
    /\ DamageRan
    /\ last.ev.attacker = HeroWolf
    /\ last.out.damage_source = SourceAttack
    /\ PostStats(Hero).total_damage_dealt = 5
    /\ PostStats(Hero).damage_by_source_dealt = (<<"Attack", " (", "Wolf", ")">> :> 5)
    /\ PostStats(Orc).damage_by_attacker_received = (Hero :> 5)

\* both a pending-spell and a pending-attack candidate, no earlier rule applies
BothCandidates ==
    /\ DamageRan /\ NoLongMatch /\ ~WeaponBuffCase
    /\ SpellCandidate # 0 /\ AttackCandidate # 0
CandSpell == PreSpells[SpellCandidate]
CandAttack == PreAttacks[AttackCandidate]

SpellTaken ==
    /\ last.out.damage_source = SourceSpell(CandSpell.spell)
    /\ pending_spells = Without(PreSpells, CandSpell.line)
    /\ pending_attacks = PreAttacks
AttackTaken ==
    /\ last.out.damage_source = SourceAttack
    /\ ~last.out.is_weapon_buff_damage
    /\ last.out.is_from_crit = CandAttack.is_crit
    /\ pending_attacks = Without(PreAttacks, CandAttack.line)
    /\ pending_spells = PreSpells

(* C7: with both candidates, the spell is chosen when it has had_save_roll   *)
(* or had_damage_immunity set, or its timestamp is not later than the        *)
(* attack's (earlier or equal), or the breakdown has no Physical component;  *)
(* otherwise the attack is chosen. Only the chosen candidate is removed.     *)
C7_SpellNotLaterThanAttack ==
    BothCandidates
        => IF \/ CandSpell.had_save_roll
              \/ CandSpell.had_damage_immunity
              \/ CandSpell.timestamp <= CandAttack.timestamp
              \/ "Physical" \notin DOMAIN last.ev.breakdown
           THEN SpellTaken
           ELSE AttackTaken

(* C7 as stated: the spell is chosen on its timestamp only when it precedes  *)
(* the attack's, so equal timestamps with a Physical component and no flags  *)
(* choose the attack.                                                        *)
C7_SpellStrictlyEarlier ==
    BothCandidates
        => IF \/ CandSpell.had_save_roll
              \/ CandSpell.had_damage_immunity
              \/ CandSpell.timestamp < CandAttack.timestamp
              \/ "Physical" \notin DOMAIN last.ev.breakdown
           THEN SpellTaken
           ELSE AttackTaken

\* equal timestamps, a Physical component, no flags: the spell is taken
C7_Witness ==
    /\ BothCandidates
    /\ CandSpell.timestamp = CandAttack.timestamp
    /\ ~CandSpell.had_save_roll /\ ~CandSpell.had_damage_immunity
    /\ "Physical" \in DOMAIN last.ev.breakdown
    /\ SpellTaken
    /\ pending_attacks # <<>>

\* a later spell without flags and a Physical component: the attack is taken
C7_WitnessAttackChosen ==
    /\ BothCandidates
    /\ CandSpell.timestamp > CandAttack.timestamp
    /\ AttackTaken
    /\ pending_spells # <<>>

(* C8: with only a pending-attack candidate the source is Attack and the     *)
(* attack is removed if the breakdown has a Physical component, otherwise    *)
(* the source is Unknown and the attack stays; with only a pending-spell     *)
(* candidate the spell is the source and is removed whatever the breakdown;  *)
(* with neither the source is Unknown and nothing is removed.                *)
C8_SingleCandidateRules ==
    (DamageRan /\ NoLongMatch /\ ~WeaponBuffCase)
        => /\ (SpellCandidate = 0 /\ AttackCandidate # 0)
                 => IF "Physical" \in DOMAIN last.ev.breakdown
                    THEN AttackTaken
                    ELSE /\ last.out.damage_source = SourceUnknown
                         /\ pending_attacks = PreAttacks
                         /\ pending_spells = PreSpells
           /\ (SpellCandidate # 0 /\ AttackCandidate = 0) => SpellTaken
           /\ (SpellCandidate = 0 /\ AttackCandidate = 0)
                 => /\ last.out.damage_source = SourceUnknown
                    /\ pending_attacks = PreAttacks
                    /\ pending_spells = PreSpells

\* an attack is pending and the damage has no Physical component: Unknown
C8_Witness ==
    /\ DamageRan /\ NoLongMatch /\ ~WeaponBuffCase
    /\ SpellCandidate = 0 /\ AttackCandidate # 0
    /\ "Physical" \notin DOMAIN last.ev.breakdown
    /\ last.out.damage_source = SourceUnknown
    /\ pending_attacks # <<>>

\* only a spell is pending and the damage is Physical: the spell is taken
C8_WitnessSpellOnly ==
    /\ DamageRan /\ NoLongMatch /\ ~WeaponBuffCase
    /\ SpellCandidate # 0 /\ AttackCandidate = 0
    /\ "Physical" \in DOMAIN last.ev.breakdown
    /\ SpellTaken

CombineDone == aggOut # None
Out == Unwrap(aggOut)

(* C9: combine(a, b) and combine(b, a) are equal in every field.             *)
C9_CombineCommutative == CombineDone => Out.ab = Out.ba

\* the fields on which the two orders agree whatever the operands
C9_CommutativeOnAggregatedFields ==
    CombineDone
        => [Out.ab EXCEPT !.concealment_dodges = 0, !.damage_by_type_received = EmptyMap]
              = [Out.ba EXCEPT !.concealment_dodges = 0, !.damage_by_type_received = EmptyMap]

\* a is a miss by concealment, b is empty: the two orders differ
C9_WitnessConcealment ==
    /\ CombineDone
    /\ aggA.concealment_dodges = 1
    /\ aggB = CombatantStats_default
    /\ Out.ab.concealment_dodges = 1
    /\ Out.ba.concealment_dodges = 0

(* C10: combine(a, combine(b, c)) equals combine(combine(a, b), c) in every  *)
(* field, and folding the three records into an empty record gives the same  *)
(* result in the order a, b, c and in the order c, b, a.                     *)
C10_CombineAssociative ==
    CombineDone => /\ Out.a_bc = Out.ab_c
                   /\ Out.fold_abc = Out.fold_cba

\* three non-empty operands with three different times of action
C10_Witness ==
    /\ CombineDone
    /\ aggA.first_action_time = Some(20)
    /\ aggB.first_action_time = Some(10)
    /\ aggC.first_action_time = Some(15)
    /\ Out.a_bc.first_action_time = Some(10)
    /\ Out.ab_c.last_action_time = Some(20)
    /\ Out.ab_c.total_damage_dealt + Out.ab_c.total_damage_received + Out.ab_c.misses
          + Out.ab_c.hits = 3

(* C11: the empty CombatantStats record is the identity of combine on either *)
(* side: combine(a, empty) and combine(empty, a) equal a in every field; the *)
(* selection view over exactly one encounter, which folds the encounter's    *)
(* record into an empty one, equals that record field for field.             *)
C11_EmptyIsIdentity ==
    CombineDone => /\ Out.a_empty = aggA
                   /\ Out.empty_a = aggA

\* the empty record on the right, and on the left for the aggregated fields
C11_IdentityOnAggregatedFields ==
    CombineDone
        => /\ Out.a_empty = aggA
           /\ Out.empty_a = [aggA EXCEPT !.concealment_dodges = 0,
                                         !.damage_by_type_received = EmptyMap]

\* one encounter holding a miss by concealment: the view shows no dodge
C11_WitnessSingleEncounterView ==
    /\ CombineDone
    /\ aggA.concealment_dodges = 1
    /\ Out.empty_a.misses = 1
    /\ Out.empty_a.concealment_dodges = 0

\* the last call was a non-administrative event other than a positive-total Damage
OtherEventRan ==
    /\ last.ev.kind \in {"Attack", "SpellResist", "Save", "Casting", "Casts", "Absorb",
                         "AbsorbResistance", "AbsorbReduction", "Damage"}
    /\ ~LastIsPositiveDamage

(* C12: an event that is not a Damage event with positive total never        *)
(* changes the last-damage time, and while an encounter is active it never   *)
(* starts a new encounter, however long after the last damage it arrives.    *)
C12_OnlyPositiveDamageDecides ==
    /\ last_combat_time = (IF prev_damage_time = None THEN 0 ELSE Unwrap(prev_damage_time))
    /\ OtherEventRan
          => /\ last_combat_time = last.pre.last_combat_time
             /\ last.pre.current_encounter # None
                   => /\ ~last.started
                      /\ current_encounter = last.pre.current_encounter
                      /\ DOMAIN encounters = DOMAIN last.pre.encounters
                      /\ encounter_counter = last.pre.encounter_counter

\* an attack roll 7 seconds after the last damage stays in the encounter
C12_Witness ==
    /\ OtherEventRan
    /\ last.ev.kind = "Attack"
    /\ last.pre_damage_time # None
    /\ last.ev.timestamp - Unwrap(last.pre_damage_time) > 6
    /\ current_encounter = last.pre.current_encounter
    /\ current_encounter # None

\* a Damage event with total 0, 12 seconds after the last damage
C12_WitnessZeroDamage ==
    /\ OtherEventRan
    /\ last.ev.kind = "Damage"
    /\ last.pre_damage_time = Some(100)
    /\ last.ev.timestamp = 112
    /\ ~last.started

\* the pending attack of the damage line's attacker and target, if the window holds one
MatchingAttackPending ==
    \E i \in 1..Len(PreAttacks) :
        PreAttacks[i].attacker = last.ev.attacker /\ PreAttacks[i].target = last.ev.target

(* C13: a transition to a new encounter empties the pending spells, the      *)
(* long-duration spells and the spell contexts (what they hold afterwards    *)
(* comes from the event that made the transition) and leaves the pending     *)
(* attacks as they were: an attack inside its 3-second window that the event *)
(* does not take is still pending.  So a Physical damage line that opens a   *)
(* new encounter while a matching hit is pending and inside the window is    *)
(* attributed to Attack.                                                     *)
C13_TransitionKeepsPendingAttacks ==
    last.started
        => /\ LinesOf(pending_spells) \subseteq {last.ev.line}
           /\ LinesOf(long_duration_spells) \subseteq {last.ev.line}
           /\ \A i \in 1..Len(spell_contexts) :
                 /\ spell_contexts[i].timestamp = last.ev.timestamp
                 /\ last.ev.kind = "SpellResist"
           /\ Len(spell_contexts) <= 1
           /\ LastIsDamage
                 => /\ pending_spells = <<>>
                    /\ long_duration_spells = <<>>
                    /\ spell_contexts = <<>>
                    /\ pending_attacks = SelectSeq(PreAttacks, LAMBDA a : a.line \notin last.out.used)
                    /\ (MatchingAttackPending /\ "Physical" \in DOMAIN last.ev.breakdown)
                          => /\ last.out.damage_source = SourceAttack
                             /\ ~last.out.is_weapon_buff_damage
                             /\ Cardinality(last.out.used) = 1

\* a hit at 103 and a spell resist in the encounter of the damage at 96; the
\* damage at 106 opens the next encounter and takes the hit
C13_Witness ==
    /\ last.started
    /\ LastIsDamage
    /\ last.pre.current_encounter # None
    /\ last.pre.pending_attacks # <<>>
    /\ last.pre.spell_contexts # <<>>
    /\ last.pre.pending_spells # <<>>
    /\ last.pre_damage_time = Some(96)
    /\ last.out.damage_source = SourceAttack
    /\ PostStats(Hero).hit_damage = 5

-----------------------------------------------------------------------------
(* The spell tracker seen from outside *)

\* the spell collections as an arm finds them: a new encounter has emptied them
PreContexts == IF last.started THEN <<>> ELSE last.pre.spell_contexts
PreLongAll == IF last.started THEN <<>> ELSE last.pre.long_duration_spells

ResistRan == last.ev.kind = "SpellResist"
LongSpellNames == {"Isaac's Greater Missile Storm", "Isaac's Lesser Missile Storm",
                   "Magic Missile", "Flame Arrow", "Ball Lightning"}
TargetsOf(ctx) == {ctx.affected_targets[j] : j \in 1..Len(ctx.affected_targets)}
\* the contexts of the resisted spell that do not hold the resisting target yet
OpenContexts ==
    {i \in 1..Len(PreContexts) :
        PreContexts[i].spell = last.ev.spell /\ last.ev.target \notin TargetsOf(PreContexts[i])}

(* C14: a SpellResist event for a spell that is not long-duration leaves     *)
(* exactly one pending spell, its own (target, spell, timestamp, both flags  *)
(* false), whatever was pending before.  If a context of the same spell that *)
(* does not hold the target exists, the first such context gets the target   *)
(* and gives its caster to the pending spell; otherwise the caster is        *)
(* Unknown and a new context of the spell with this target is opened.        *)
C14_RegularResistReplacesPending ==
    (ResistRan /\ last.ev.spell \notin LongSpellNames)
        => /\ Len(pending_spells) = 1
           /\ pending_spells[1].target = last.ev.target
           /\ pending_spells[1].spell = last.ev.spell
           /\ pending_spells[1].timestamp = last.ev.timestamp
           /\ ~pending_spells[1].had_save_roll
           /\ ~pending_spells[1].had_damage_immunity
           /\ pending_spells[1].line = last.ev.line
           /\ long_duration_spells = PreLongAll
           /\ pending_attacks = last.pre.pending_attacks
           /\ IF OpenContexts # {}
              THEN LET i == CHOOSE k \in OpenContexts : \A j \in OpenContexts : k <= j
                   IN /\ pending_spells[1].caster = PreContexts[i].caster
                      /\ Len(spell_contexts) = Len(PreContexts)
                      /\ \A k \in 1..Len(PreContexts) :
                            IF k = i
                            THEN /\ spell_contexts[k].affected_targets
                                       = Append(PreContexts[k].affected_targets, last.ev.target)
                                 /\ spell_contexts[k].caster = PreContexts[k].caster
                                 /\ spell_contexts[k].spell = PreContexts[k].spell
                            ELSE spell_contexts[k] = PreContexts[k]
              ELSE /\ pending_spells[1].caster = UnknownCaster
                   /\ Len(spell_contexts) = Len(PreContexts) + 1
                   /\ SubSeq(spell_contexts, 1, Len(PreContexts)) = PreContexts
                   /\ spell_contexts[Len(spell_contexts)]
                         = [ caster |-> UnknownCaster, spell |-> last.ev.spell,
                             affected_targets |-> <<last.ev.target>>,
                             timestamp |-> last.ev.timestamp ]

\* Fireball on the Imp joins the Fireball context whose caster the damage on the Orc resolved
C14_Witness ==
    /\ ResistRan
    /\ last.ev.spell = "Fireball"
    /\ OpenContexts # {}
    /\ pending_spells[1].caster = Hero
    /\ pending_spells[1].target = Imp
    /\ Len(spell_contexts) = 1
    /\ spell_contexts[1].affected_targets = <<Orc, Imp>>

\* a pending Fireball is discarded by the resist of another spell
C14_WitnessDiscard ==
    /\ ResistRan
    /\ last.ev.spell = "Ice Storm"
    /\ Len(last.pre.pending_spells) = 1
    /\ last.pre.pending_spells[1].spell = "Fireball"
    /\ ~last.started
    /\ Len(pending_spells) = 1
    /\ Len(spell_contexts) = 2

(* C15: a SpellResist event for a long-duration spell appends exactly one    *)
(* long-duration entry (its target and spell, Unknown caster, the event's    *)
(* timestamp, both flags false) and leaves every existing long-duration      *)
(* entry as it was, in place.                                                *)
C15_LongResistAppendsOneEntry ==
    (ResistRan /\ last.ev.spell \in LongSpellNames)
        => /\ Len(long_duration_spells) = Len(PreLongAll) + 1
           /\ SubSeq(long_duration_spells, 1, Len(PreLongAll)) = PreLongAll
           /\ long_duration_spells[Len(long_duration_spells)]
                 = [ caster |-> UnknownCaster, target |-> last.ev.target,
                     spell |-> last.ev.spell, timestamp |-> last.ev.timestamp,
                     had_save_roll |-> FALSE, had_damage_immunity |-> FALSE,
                     line |-> last.ev.line ]
           /\ pending_attacks = last.pre.pending_attacks

\* Magic Missile on the Orc and on the Imp and Flame Arrow on the Orc, all tracked
C15_Witness ==
    /\ ResistRan
    /\ last.ev.spell \in LongSpellNames
    /\ Len(long_duration_spells) = 3
    /\ {<<long_duration_spells[i].spell, long_duration_spells[i].target>> : i \in 1..3}
          = {<<"Magic Missile", Orc>>, <<"Magic Missile", Imp>>, <<"Flame Arrow", Orc>>}

SaveRan == last.ev.kind = "Save"
\* the contexts that include the saving target
ContextsWithTarget ==
    {i \in 1..Len(PreContexts) : last.ev.target \in TargetsOf(PreContexts[i])}
\* every such context is as its resist created it: one target, caster not yet
\* resolved, so that the order of creation is the order of the last touch
RecencyUnambiguous ==
    \A i \in ContextsWithTarget :
        Len(PreContexts[i].affected_targets) = 1 /\ PreContexts[i].caster = UnknownCaster
OldestContextWithTarget == CHOOSE i \in ContextsWithTarget : \A j \in ContextsWithTarget : i <= j
NewestContextWithTarget == CHOOSE i \in ContextsWithTarget : \A j \in ContextsWithTarget : i >= j

\* had_save_roll is set on exactly the entries of the saving target and of spell
SavedExactly(spell) ==
    /\ Len(pending_spells) = Len(PreSpells)
    /\ \A i \in 1..Len(PreSpells) :
          pending_spells[i]
             = [PreSpells[i] EXCEPT !.had_save_roll =
                   @ \/ (PreSpells[i].target = last.ev.target /\ PreSpells[i].spell = spell)]
    /\ Len(long_duration_spells) = Len(PreLongAll)
    /\ \A i \in 1..Len(PreLongAll) :
          long_duration_spells[i]
             = [PreLongAll[i] EXCEPT !.had_save_roll =
                   @ \/ (PreLongAll[i].target = last.ev.target /\ PreLongAll[i].spell = spell)]

(* C16: a Save event for target T sets had_save_roll on exactly the pending  *)
(* and long-duration entries whose target is T and whose spell is that of    *)
(* the most recently touched context that includes T.  Stated where recency  *)
(* is unambiguous: every context that includes T is as its resist created    *)
(* it, so the most recently touched one is the last one in the list.         *)
C16_MostRecentContextDecides ==
    (SaveRan /\ ContextsWithTarget # {} /\ RecencyUnambiguous)
        => SavedExactly(PreContexts[NewestContextWithTarget].spell)

\* what the loop does: the first context in the list that includes T decides
C16_FirstContextDecides ==
    SaveRan
        => IF ContextsWithTarget # {}
           THEN SavedExactly(PreContexts[OldestContextWithTarget].spell)
           ELSE pending_spells = PreSpells /\ long_duration_spells = PreLongAll

\* Fireball then Ice Storm resisted by the Orc: the save marks no entry
C16_WitnessOlderContextDecides ==
    /\ SaveRan
    /\ Cardinality(ContextsWithTarget) = 2
    /\ RecencyUnambiguous
    /\ Len(pending_spells) = 1
    /\ pending_spells[1].spell = "Ice Storm"
    /\ pending_spells[1].target = last.ev.target
    /\ ~pending_spells[1].had_save_roll

\* a single context: the save marks its pending spell
C16_WitnessSingleContext ==
    /\ SaveRan
    /\ Cardinality(ContextsWithTarget) = 1
    /\ Len(pending_spells) = 1
    /\ pending_spells[1].had_save_roll

Age(entry) == last.ev.timestamp - entry.timestamp

(* C17: a Damage event at time t is attributed to a pending attack only if   *)
(* the attack is at most 3 seconds old at t, and to a long-duration spell    *)
(* only if an entry of that spell for the target is at most 6 seconds old;   *)
(* after the event no pending attack older than 3 and no long-duration entry *)
(* older than 6 remains, and every entry inside its window that the event    *)
(* did not take is still there, an entry of age exactly 3 (resp. 6)          *)
(* included.                                                                 *)
C17_ExpiryWindows ==
    DamageRan
        => /\ last.out.rule = "attack"
                 => \E i \in 1..Len(last.pre.pending_attacks) :
                       /\ last.out.used = {last.pre.pending_attacks[i].line}
                       /\ Age(last.pre.pending_attacks[i]) <= 3
           /\ last.out.rule = "weapon_buff"
                 => \E i \in 1..Len(last.pre.pending_attacks) :
                       Age(last.pre.pending_attacks[i]) <= 3
           /\ last.out.rule = "long"
                 => \E i \in 1..Len(PreLongAll) :
                       /\ last.out.damage_source = SourceSpell(PreLongAll[i].spell)
                       /\ PreLongAll[i].target = last.ev.target
                       /\ Age(PreLongAll[i]) <= 6
           /\ \A i \in 1..Len(pending_attacks) : Age(pending_attacks[i]) <= 3
           /\ \A i \in 1..Len(long_duration_spells) : Age(long_duration_spells[i]) <= 6
           /\ pending_attacks
                 = SelectSeq(last.pre.pending_attacks,
                             LAMBDA a : Age(a) <= 3 /\ a.line \notin last.out.used)
           /\ LinesOf(long_duration_spells)
                 = {PreLongAll[i].line : i \in {j \in 1..Len(PreLongAll) : Age(PreLongAll[j]) <= 6}}

\* a hit of age exactly 3 is taken
C17_Witness ==
    /\ DamageRan
    /\ last.out.rule = "attack"
    /\ \E i \in 1..Len(last.pre.pending_attacks) :
          /\ last.pre.pending_attacks[i].line \in last.out.used
          /\ Age(last.pre.pending_attacks[i]) = 3

\* a hit of age 4 is dropped and the Physical damage has no source
C17_WitnessAttackExpired ==
    /\ DamageRan
    /\ last.out.rule = "unknown"
    /\ "Physical" \in DOMAIN last.ev.breakdown
    /\ Len(last.pre.pending_attacks) = 1
    /\ Age(last.pre.pending_attacks[1]) = 4
    /\ last.pre.pending_attacks[1].target = last.ev.target
    /\ pending_attacks = <<>>

\* a Magic Missile entry of age exactly 6 is the source
C17_WitnessLongAtLimit ==
    /\ DamageRan
    /\ last.out.rule = "long"
    /\ Len(PreLongAll) = 1
    /\ Age(PreLongAll[1]) = 6

\* a Magic Missile entry of age 7 is dropped inside the same encounter
C17_WitnessLongExpired ==
    /\ DamageRan
    /\ ~last.started
    /\ last.out.rule = "unknown"
    /\ Len(PreLongAll) = 1
    /\ PreLongAll[1].target = last.ev.target
    /\ DOMAIN last.ev.breakdown = {"Magical"}
    /\ Age(PreLongAll[1]) = 7
    /\ long_duration_spells = <<>>

\* the active long-duration entries that match the damage line
LongMatches ==
    {i \in 1..Len(PreLong) :
        /\ PreLong[i].caster \in {last.ev.attacker, UnknownCaster}
        /\ PreLong[i].target = last.ev.target
        /\ \/ /\ PreLong[i].spell \in {"Isaac's Greater Missile Storm",
                                       "Isaac's Lesser Missile Storm", "Magic Missile"}
              /\ DOMAIN last.ev.breakdown = {"Magical"}
           \/ PreLong[i].spell = "Flame Arrow" /\ DOMAIN last.ev.breakdown = {"Fire"}
           \/ PreLong[i].spell = "Ball Lightning" /\ DOMAIN last.ev.breakdown = {"Electrical"}}
FirstLongMatch == PreLong[CHOOSE i \in LongMatches : \A j \in LongMatches : i <= j]
UnknownContextsOf(spell) ==
    {i \in 1..Len(PreContexts) :
        PreContexts[i].spell = spell /\ PreContexts[i].caster = UnknownCaster}

(* C18: a Damage event that matches an active long-duration entry (caster    *)
(* the damaging actor or Unknown, same target, type signature satisfied) has *)
(* the source 'Spell: <name>' of the first such entry, whatever attacks or   *)
(* spells are pending and even when the weapon-buff rule would apply; no     *)
(* pending attack, pending spell or long-duration entry is removed; if the   *)
(* entry's caster was Unknown, every Unknown-caster long-duration entry of   *)
(* that spell and the first Unknown-caster context of that spell get the     *)
(* damaging actor as caster, and nothing else changes.                       *)
C18_LongDurationMatchFirst ==
    (DamageRan /\ LongMatches # {})
        => LET m == FirstLongMatch
               unknown == UnknownContextsOf(m.spell)
           IN /\ last.out.damage_source = SourceSpell(m.spell)
              /\ ~last.out.is_from_crit
              /\ ~last.out.is_weapon_buff_damage
              /\ pending_attacks = PreAttacks
              /\ pending_spells = PreSpells
              /\ Len(long_duration_spells) = Len(PreLong)
              /\ Len(spell_contexts) = Len(PreContexts)
              /\ IF m.caster = UnknownCaster
                 THEN /\ \A i \in 1..Len(PreLong) :
                            long_duration_spells[i]
                               = IF PreLong[i].spell = m.spell /\ PreLong[i].caster = UnknownCaster
                                 THEN [PreLong[i] EXCEPT !.caster = last.ev.attacker]
                                 ELSE PreLong[i]
                      /\ \A i \in 1..Len(PreContexts) :
                            spell_contexts[i]
                               = IF i \in unknown /\ \A j \in unknown : i <= j
                                 THEN [PreContexts[i] EXCEPT !.caster = last.ev.attacker]
                                 ELSE PreContexts[i]
                 ELSE /\ long_duration_spells = PreLong
                      /\ spell_contexts = PreContexts

\* Flame Arrow is active, a hit is pending and no spell is: the Fire damage
\* that the weapon-buff rule would take goes to the spell, the hit stays
C18_Witness ==
    /\ DamageRan /\ LongMatches # {}
    /\ WeaponBuffCase
    /\ last.out.damage_source = SourceSpell("Flame Arrow")
    /\ pending_attacks # <<>>
    /\ long_duration_spells[1].caster = Hero

\* Magic Missile on the Orc and on the Imp, both of Unknown caster: damage on
\* the Orc gives both entries and the context the caster Hero
C18_WitnessSiblingsResolved ==
    /\ DamageRan /\ LongMatches # {}
    /\ Len(PreLong) = 2
    /\ PreLong[1].caster = UnknownCaster /\ PreLong[2].caster = UnknownCaster
    /\ PreLong[1].target # PreLong[2].target
    /\ long_duration_spells[1].caster = Hero /\ long_duration_spells[2].caster = Hero
    /\ spell_contexts[1].caster = Hero

\* a pending Fireball and an active Magic Missile: Magical damage goes to Magic Missile
C18_WitnessAheadOfPendingSpell ==
    /\ DamageRan /\ LongMatches # {}
    /\ PreSpells # <<>>
    /\ SpellCandidate # 0
    /\ last.out.damage_source = SourceSpell("Magic Missile")
    /\ pending_spells = PreSpells

\* the last call was an event that the early returns let through
NonAdministrativeRan ==
    last.ev.kind \in {"Attack", "Damage", "SpellResist", "Save", "Casting", "Casts", "Absorb",
                      "AbsorbResistance", "AbsorbReduction"}

(* C19: every processed non-administrative event, of whatever kind, sets the *)
(* end_time of the current encounter to its timestamp; an encounter's id and *)
(* start_time never change after its creation, a new encounter starts at the *)
(* timestamp of the event that opened it, and the other encounters are left  *)
(* as they were.                                                             *)
C19_EndTimeFollowsEveryEvent ==
    /\ \A id \in DOMAIN encounters : encounters[id].id = id
    /\ \A id \in DOMAIN last.pre.encounters :
          /\ id \in DOMAIN encounters
          /\ encounters[id].start_time = last.pre.encounters[id].start_time
          /\ current_encounter # Some(id) => encounters[id] = last.pre.encounters[id]
    /\ NonAdministrativeRan
          => /\ current_encounter # None
             /\ encounters[Unwrap(current_encounter)].end_time = last.ev.timestamp
             /\ last.started
                   => /\ Unwrap(current_encounter) \notin DOMAIN last.pre.encounters
                      /\ encounters[Unwrap(current_encounter)].start_time = last.ev.timestamp

\* a save at 103 moves the end time of the encounter that the damage at 96 opened
C19_Witness ==
    /\ last.ev.kind = "Save"
    /\ ~last.started
    /\ last.pre.encounters[Unwrap(current_encounter)].end_time = 96
    /\ encounters[Unwrap(current_encounter)].start_time = 96
    /\ encounters[Unwrap(current_encounter)].end_time = 103

\* a cast line moves it as well
C19_WitnessCast ==
    /\ last.ev.kind = "Casting"
    /\ ~last.started
    /\ last.pre.encounters[Unwrap(current_encounter)].end_time # last.ev.timestamp
    /\ encounters[Unwrap(current_encounter)].end_time = last.ev.timestamp

\* the last call was one of the six lines that return before the segmenter
AdministrativeRan ==
    last.ev.kind \in {"PlayerJoin", "PlayerChat", "PartyChat", "PartyJoin", "Resting",
                      "BuffExpired"}

(* C20: a player join, player chat, party chat, party join, rest or buff     *)
(* expiry line stops before the segmenter: it creates no encounter and leaves *)
(* the encounter table, the encounter counter, the current encounter, the    *)
(* last-damage time, the pending attacks, the pending spells, the            *)
(* long-duration spells and the spell contexts exactly as they were.         *)
C20_AdministrativeChangesNothing ==
    AdministrativeRan
        => /\ ~last.started
           /\ encounters = last.pre.encounters
           /\ encounter_counter = last.pre.encounter_counter
           /\ current_encounter = last.pre.current_encounter
           /\ last_combat_time = last.pre.last_combat_time
           /\ pending_attacks = last.pre.pending_attacks
           /\ pending_spells = last.pre.pending_spells
           /\ long_duration_spells = last.pre.long_duration_spells
           /\ spell_contexts = last.pre.spell_contexts

\* an administrative line met an encounter and all four collections filled
C20_Witness ==
    /\ AdministrativeRan
    /\ current_encounter # None
    /\ encounters[Unwrap(current_encounter)].end_time = 103
    /\ pending_attacks # <<>>
    /\ pending_spells # <<>>
    /\ long_duration_spells # <<>>
    /\ Len(spell_contexts) = 2

\* a rest twelve seconds after the last damage opens nothing and moves no time
C20_WitnessLateRest ==
    /\ last.ev.kind = "Resting"
    /\ last.ev.timestamp = 112
    /\ last_combat_time = 100
    /\ Cardinality(DOMAIN encounters) = 1
    /\ encounters[Unwrap(current_encounter)].end_time < 112

\* an administrative line as the first line of the log leaves the table empty
C20_WitnessNoEncounter ==
    /\ AdministrativeRan
    /\ steps = 1
    /\ encounters = EmptyMap
    /\ current_encounter = None

-----------------------------------------------------------------------------
(* The worker and the presentation thread *)

\* the presentation thread stands at a lock() on the table or the id whose Mutex
\* the worker holds
PresentationWaits ==
    /\ upc \in DOMAIN UiSite
    /\ UiSite[upc] \in {"encounters", "current_encounter_id"}
    /\ mutex[UiSite[upc]] = "worker"

\* the worker stands at a lock() on the table, the id or the counter whose Mutex
\* the presentation thread holds
WorkerWaits ==
    /\ wpc \in DOMAIN WorkerSite
    /\ WorkerSite[wpc] \in {"encounters", "current_encounter_id", "encounter_counter"}
    /\ mutex[WorkerSite[wpc]] = "ui"

(* C21: every write to the encounter table, to the current encounter id and  *)
(* to the encounter id counter is made by the worker; the presentation       *)
(* thread only reads them.                                                   *)
C21_OnlyWorkerMutates == \A m \in mutations : m[1] = "worker"

(* C22: the presentation thread reaches the encounter table and the current  *)
(* encounter id by try_lock only, falling back to an empty result, and is    *)
(* never waiting for a Mutex that the worker holds.                          *)
C22_PresentationNeverWaits == ~PresentationWaits

(* C23: the worker is never waiting for the Mutex of the encounter table, of *)
(* the current id or of the counter while the presentation thread holds it.  *)
C23_WorkerNeverWaits == ~WorkerWaits

(* C26: an encounter is never deleted: no step of the worker or of the       *)
(* presentation thread removes an id from the encounter table.               *)
C26_EncountersNeverDeleted == [][DOMAIN encounters \subseteq DOMAIN encounters']_vars

-----------------------------------------------------------------------------
(* The worker survives every line *)

(* C24: no event is fatal to the worker: whatever its kind, timestamp, names *)
(* and amounts, processing it completes and leaves the worker able to        *)
(* process the next one.                                                     *)
C24_NoEventIsFatal == ~worker_panicked

\* in the build where overflow wraps the worker survives the same lines, with a
\* total that went down
C24_WorkerSurvivesWhereOverflowWraps == ~overflow_checks => ~worker_panicked

-----------------------------------------------------------------------------
(* Encounters other than the current one *)

\* the encounters of the table before the last call that the call changed
ChangedEncounters ==
    { id \in DOMAIN last.pre.encounters :
        id \notin DOMAIN encounters \/ encounters[id] # last.pre.encounters[id] }

C25_WitnessAtTransition ==
    /\ last.started
    /\ last.pre.current_encounter = Some(1)
    /\ DOMAIN encounters[1].stats # {}
    /\ encounters[1] = last.pre.encounters[1]
    /\ encounters[1].end_time < encounters[2].start_time

-----------------------------------------------------------------------------
(* Lazy creation of the statistics entries *)

\* the names of the statistics table of the current encounter, before and after
NamesBefore ==
    IF last.started \/ last.pre.current_encounter = None THEN {}
    ELSE DOMAIN last.pre.encounters[Unwrap(last.pre.current_encounter)].stats
NamesAfter == DOMAIN encounters[Unwrap(current_encounter)].stats

\* the names the last event shows as attacker or target of an attack roll or of
\* a damage event, or as recipient of an absorption
NamesSeen ==
    CASE last.ev.kind \in {"Attack", "Damage"} -> {last.ev.attacker, last.ev.target}
      [] last.ev.kind \in {"Absorb", "AbsorbResistance", "AbsorbReduction"} -> {last.ev.target}
      [] OTHER -> {}

\* the names for which the arms of the last event make an entry
NamesEntered ==
    CASE last.ev.kind = "Attack" -> {last.ev.attacker}
      [] last.ev.kind = "Damage" -> {actual_attacker_of(last.ev.attacker), last.ev.target}
      [] last.ev.kind \in {"Absorb", "AbsorbResistance", "AbsorbReduction"} -> {last.ev.target}
      [] OTHER -> {}

(* C27: a combatant has an entry in the statistics table of an encounter     *)
(* exactly when its name has been seen, during that encounter, as attacker   *)
(* or target of an attack roll or of a damage event, or as recipient of an   *)
(* absorption: each event adds exactly the names it shows.                   *)
C27_LazyCreation == NonAdministrativeRan => NamesAfter = NamesBefore \cup NamesSeen

\* the entries that are made: the attacker of an attack roll but not its target,
\* and for damage the name before the summon separator in place of the attacker
C27_EntriesMade == NonAdministrativeRan => NamesAfter = NamesBefore \cup NamesEntered

\* a target of an attack roll without an entry
C27_WitnessTargetWithoutEntry ==
    /\ last.ev.kind = "Attack"
    /\ last.ev.attacker \in NamesAfter
    /\ last.ev.target \notin NamesAfter

\* a summon that dealt damage without an entry, its owner with one
C27_WitnessSummon ==
    /\ last.ev.kind = "Damage"
    /\ last.ev.attacker \notin NamesAfter
    /\ actual_attacker_of(last.ev.attacker) \in NamesAfter

-----------------------------------------------------------------------------
(* Two runs on the same events *)

(* C28: two runs of the engine started from the same state and fed the same  *)
(* sequence of events give every Damage event the same source, crit flag and *)
(* weapon-buff flag and end in the same tracker and statistics state,        *)
(* whatever order each run's HashMaps are iterated in.                       *)
C28_AttributionDeterminism ==
    /\ replica.st = State
    /\ replica.out.damage_source = last.out.damage_source
    /\ replica.out.is_from_crit = last.out.is_from_crit
    /\ replica.out.is_weapon_buff_damage = last.out.is_weapon_buff_damage
    /\ replica.out.used = last.out.used

\* a Damage event of two types that the two runs iterated in opposite orders and
\* that consumed a pending entry
C28_Witness ==
    /\ LastIsDamage
    /\ Len(last.ev.iter) = 2
    /\ replica.iter # last.ev.iter
    /\ last.out.used # {}
    /\ last.out.damage_source # SourceUnknown

-----------------------------------------------------------------------------
(* The SpellResist arm and the pending spells *)

LastIsLongDurationResist ==
    /\ steps > 0
    /\ last.ev.kind = "SpellResist"
    /\ is_long_duration_spell(last.ev.spell)

(* C30: a SpellResist event for a long-duration spell leaves the collection  *)
(* of pending (non-long-duration) spells unchanged; only a SpellResist for a *)
(* non-long-duration spell clears it.                                        *)
C30_LongDurationResistKeepsPending ==
    LastIsLongDurationResist => pending_spells = last.pre.pending_spells

\* what the arm does: the clear at its top runs for every spell, so no pending
\* spell survives a long-duration resist
C30_EveryResistClearsPending ==
    LastIsLongDurationResist /\ current_encounter # None => pending_spells = <<>>

-----------------------------------------------------------------------------
(* The classifier *)

LineMatchesBoth ==
    /\ raw_line.matches \cap AdministrativePatterns # {}
    /\ raw_line.matches \cap CombatPatterns # {}

Classified ==
    /\ Cardinality(parsed) <= 1
    /\ raw_line.matches = {} => parsed = None
    /\ LineMatchesBoth => parsed # None /\ is_administrative(Unwrap(parsed))

(* C29: a line is classified as at most one event; a line no pattern         *)
(* recognizes yields no event and no error; a line that matches both an      *)
(* administrative pattern (rest, buff expiry, player join, player chat,      *)
(* party chat, party join) and a combat pattern is classified as the         *)
(* administrative event.                                                     *)
C29_ClassifierPrecedence == ~worker_panicked /\ Classified

\* the classification is as stated on every line whose parse returns
C29_PrecedenceWhereParseReturns == ~worker_panicked => Classified

\* party chat quoting an attack, read as party chat
C29_WitnessChatOverAttack ==
    /\ {"RE_PARTY_CHAT", "RE_ATTACK"} \subseteq raw_line.matches
    /\ parsed # None
    /\ Unwrap(parsed).kind = "PartyChat"

\* an unrecognized line under a header whose hours do not fit, read by a build
\* that checks overflow
C29_WitnessUnrecognizedPanics ==
    /\ raw_line.matches = {}
    /\ worker_panicked

-----------------------------------------------------------------------------
(* Timestamps that jump downward *)

\* a positive-total Damage event earlier than the positive damage before it, with
\* an encounter active
DamageWentBack ==
    /\ LastIsPositiveDamage
    /\ last.pre.current_encounter # None
    /\ last.pre_damage_time # None
    /\ last.ev.timestamp < Unwrap(last.pre_damage_time)

(* C31: a positive-total Damage event whose timestamp is lower than the      *)
(* previous damage timestamp never starts a new encounter while one is       *)
(* active: the gap counts as zero, the event stays in the current encounter  *)
(* and the last-damage time becomes the event's own lower timestamp.         *)
C31_BackwardDamageStays ==
    DamageWentBack
        => /\ ~last.started
           /\ saturating_sub(last.ev.timestamp, last.pre.last_combat_time) = 0
           /\ current_encounter = last.pre.current_encounter
           /\ DOMAIN encounters = DOMAIN last.pre.encounters
           /\ damage_log[Len(damage_log)].encounter = last.pre.current_encounter
           /\ last_combat_time = last.ev.timestamp
           /\ last_combat_time < last.pre.last_combat_time

\* damage at 112 followed by damage at 100: further back than the timeout
C31_Witness ==
    /\ DamageWentBack
    /\ Unwrap(last.pre_damage_time) - last.ev.timestamp > ENCOUNTER_TIMEOUT
    /\ last_combat_time = last.ev.timestamp

\* the damage after the jump is measured from the lower time: 112, 96, then 103
\* starts an encounter although 103 is earlier than 112
C31_WitnessMeasuredFromLowerTime ==
    /\ LastIsPositiveDamage
    /\ last.started
    /\ Len(damage_log) = 3
    /\ damage_log[1].timestamp > last.ev.timestamp
    /\ damage_log[2].timestamp < damage_log[1].timestamp

-----------------------------------------------------------------------------
(* The pending spells among the pending attacks *)

(* C32: in every reachable state the pending (non-long-duration) spells hold *)
(* at most one entry, and every pending spell was recorded after every       *)
(* pending attack currently held: an attack roll of any result and any       *)
(* SpellResist empty the pending spells before recording.                    *)
C32_AtMostOnePendingSpell ==
    /\ Len(pending_spells) <= 1
    /\ \A i \in 1..Len(pending_spells), j \in 1..Len(pending_attacks) :
          pending_spells[i].line > pending_attacks[j].line
    /\ (steps > 0 /\ last.ev.kind \in {"Attack", "SpellResist"})
          => LinesOf(pending_spells) \subseteq {last.ev.line}

\* a pending spell held together with a pending attack recorded before it
C32_Witness ==
    /\ Len(pending_spells) = 1
    /\ pending_attacks # <<>>
    /\ last.ev.kind = "SpellResist"
    /\ last.pre.pending_attacks # <<>>

\* a miss that emptied the pending spells
C32_WitnessMissClears ==
    /\ last.ev.kind = "Attack"
    /\ last.ev.result = "miss"
    /\ ~last.started
    /\ last.pre.pending_spells # <<>>
    /\ pending_spells = <<>>

-----------------------------------------------------------------------------
(* What an Attack attribution rests on *)

\* a pending attack by the damage line's attacker against its target, held when the
\* line is attributed and at most ATTACK_EXPIRY seconds older than the line
MatchingAttackHeld ==
    \E i \in 1..Len(last.pre.pending_attacks) :
        LET attack == last.pre.pending_attacks[i]
        IN /\ attack.attacker = last.ev.attacker
           /\ attack.target = last.ev.target
           /\ saturating_sub(last.ev.timestamp, attack.timestamp) <= ATTACK_EXPIRY

(* C33: whenever a Damage event by attacker X on target Y is attributed to   *)
(* source Attack, the weapon-buff case included, a pending attack by X       *)
(* against Y, not older than 3 seconds, exists at the moment of attribution. *)
C33_AttackNeedsMatchingAttack ==
    (DamageRan /\ last.out.damage_source = SourceAttack) => MatchingAttackHeld

\* outside the weapon-buff case the attribution consumes such an attack
C33_AttackOutsideWeaponBuff ==
    (DamageRan /\ last.out.damage_source = SourceAttack /\ ~last.out.is_weapon_buff_damage)
        => /\ MatchingAttackHeld
           /\ last.out.used # {}

\* Fire damage counted as a weapon buff while the only pending attack is another pair's
C33_WitnessOtherPairsAttack ==
    /\ DamageRan
    /\ last.out.is_weapon_buff_damage
    /\ ~MatchingAttackHeld

-----------------------------------------------------------------------------
(* Encounter ids under the confirm action *)

(* C34: under any interleaving of the worker with the presentation layer's   *)
(* confirm action, the id allocated for a new encounter is never the key of  *)
(* an encounter already in the table, so that inserting a new encounter      *)
(* never overwrites one, and the id counter is greater than every id in the  *)
(* table.                                                                    *)
C34_FreshIds ==
    /\ \A id \in DOMAIN encounters : encounter_counter > id
    /\ wpc = "line_insert" => worker_new_id \notin DOMAIN encounters

\* the second half alone: the id in the worker's hand is not in the table
C34_AllocatedIdIsFree == wpc = "line_insert" => worker_new_id \notin DOMAIN encounters

\* the counter is reset by the presentation thread after the worker has inserted
\* an encounter into the table the presentation thread had just cleared
C34_WitnessCounterBelowTable ==
    /\ <<"ui", "encounter_counter">> \in mutations
    /\ \E id \in DOMAIN encounters : encounter_counter <= id

-----------------------------------------------------------------------------
(* The shared current id and the table *)

CurrentIdInTable ==
    current_encounter_id = None \/ Unwrap(current_encounter_id) \in DOMAIN encounters

(* C35: in every reachable state, and in every pair of values the            *)
(* presentation layer reads in one frame, the shared current encounter id is *)
(* either none or the key of an encounter present in the encounter table.    *)
C35_CurrentIdNamesAnEncounter ==
    /\ CurrentIdInTable
    /\ upc = "stats_read" => CurrentIdInTable

\* what get_current_stats reads under its two guards
C35_FrameReadsConsistentPair == upc = "stats_read" => CurrentIdInTable

\* the worker's own reload clears the table before the id, and a frame reads between
C35_WitnessFrameDuringReload ==
    /\ upc = "stats_read"
    /\ ~CurrentIdInTable
    /\ wpc = "reload_current"

-----------------------------------------------------------------------------
(* Waiting for each other *)

WorkerWaitsFor(m) == wpc \in DOMAIN WorkerSite /\ WorkerSite[wpc] = m /\ mutex[m] = "ui"
UiWaitsFor(m) == upc \in DOMAIN UiSite /\ UiSite[upc] = m /\ mutex[m] = "worker"

(* C36: the worker and the presentation thread never deadlock: over the      *)
(* Mutexes of the encounter table, the current encounter id, the id counter, *)
(* the player registry, the buff tracker, the settings and the reload flag,  *)
(* no reachable state has each thread waiting for a lock the other holds.    *)
C36_NoDeadlock ==
    ~(\E m1, m2 \in Mutexes : WorkerWaitsFor(m1) /\ UiWaitsFor(m2))

\* the presentation thread, holding a guard of its own, waits for a Mutex the
\* worker holds
C36_WitnessWorkerWaitsHolding ==
    /\ \E m \in Mutexes : UiWaitsFor(m)
    /\ \E m \in Mutexes : mutex[m] = "ui"

\* the presentation thread waits, under the buff tracker's guard, for the settings
C36_WitnessNested ==
    /\ upc = "buff_flash"
    /\ wpc \in {"casts_buff", "admin_buff"}
    /\ WorkerWaitsFor("buff_tracker")

\* the state that a reload leaves behind: watcher.rs 714-725
ReloadHonoured ==
    /\ ~log_reload_requested
    /\ encounters = EmptyMap
    /\ current_encounter_id = None
    /\ encounter_counter = 1
    /\ spell_contexts = <<>> /\ pending_attacks = <<>>
    /\ pending_spells = <<>> /\ long_duration_spells = <<>>

\* C37: once the presentation layer has set the reload flag, under fair scheduling
\* the worker eventually clears the table and the pending actions, resets the
\* current id to none and the counter to 1, and resets the flag
C37_ReloadEventuallyHonoured == log_reload_requested ~> ReloadHonoured

\* C37, while the worker thread lives: a request is honoured unless the worker has
\* ended on a counter's overflow
C37_HonouredWhileWorkerLives == log_reload_requested ~> (ReloadHonoured \/ worker_panicked)

\* C37: a reload is asked for after the worker thread has ended
C37_WitnessRequestAfterPanic == log_reload_requested /\ worker_panicked

\* C37: the worker has just honoured a request
C37_WitnessHonoured == wpc = "loop_settings" /\ ReloadHonoured /\ steps > 0

\* the two runs have cut the lines into the same encounters
SameSegmentation ==
    /\ replica.st.current_encounter = current_encounter
    /\ DOMAIN replica.st.encounters = DOMAIN encounters
    /\ \A id \in DOMAIN encounters :
           /\ replica.st.encounters[id].start_time = encounters[id].start_time
           /\ replica.st.encounters[id].end_time = encounters[id].end_time

\* the two runs have given the last Damage line to the same source
SameAttribution ==
    /\ replica.out.damage_source = last.out.damage_source
    /\ replica.out.is_from_crit = last.out.is_from_crit
    /\ replica.out.is_weapon_buff_damage = last.out.is_weapon_buff_damage

\* C38: loading a prefix of the lines as the historical load and tailing the rest
\* gives the same encounters and the same damage attributions as loading all
\* of them at once
C38_HandoffEquivalence == Live => (SameSegmentation /\ SameAttribution)

\* C38, the gap test alone
C38_SegmentationCarriesOver == Live => SameSegmentation

\* C38, the pending actions alone
C38_AttributionCarriesOver == Live => SameAttribution

\* C38: the hand-off has been followed by a Damage line
C38_WitnessTailedDamage ==
    Live /\ steps >= 2 /\ last.ev.kind = "Damage" /\ replica.st.encounters # encounters

\* a sum of u32 counters, kept as a count of 2^16s and a rest below 2^16
Wide(n) == <<n \div LimbBase, n % LimbBase>>
WideAdd(a, b) ==
    LET rest == a[2] + b[2] IN <<a[1] + b[1] + rest \div LimbBase, rest % LimbBase>>
RECURSIVE WideSum(_, _)
WideSum(m, keys) ==
    IF keys = {} THEN Wide(0)
    ELSE LET k == CHOOSE x \in keys : TRUE IN WideAdd(Wide(m[k]), WideSum(m, keys \ {k}))

\* the sources "Attack" and "Attack (<summon>)"
IsAttackSource(src) ==
    \/ src = SourceAttack
    \/ Len(src) = 4 /\ src[1] = "Attack" /\ src[2] = " (" /\ src[4] = ")"

TotalsDealt(id) == [n \in DOMAIN StatsOf(id) |-> StatsOf(id)[n].total_damage_dealt]
TotalsReceived(id) == [n \in DOMAIN StatsOf(id) |-> StatsOf(id)[n].total_damage_received]

\* dealt and received add up to the same amount in every encounter
DealtEqualsReceived ==
    \A id \in DOMAIN encounters :
        WideSum(TotalsDealt(id), DOMAIN StatsOf(id))
            = WideSum(TotalsReceived(id), DOMAIN StatsOf(id))

\* a combatant's hit, crit and weapon-buff damage add up to its attack sources
AttackDamageSplits ==
    \A id \in DOMAIN encounters : \A name \in DOMAIN StatsOf(id) :
        LET cs == StatsOf(id)[name]
        IN WideAdd(Wide(cs.hit_damage),
                   WideAdd(Wide(cs.crit_damage), Wide(cs.weapon_buff_damage)))
              = WideSum(cs.damage_by_source_dealt,
                        {src \in DOMAIN cs.damage_by_source_dealt : IsAttackSource(src)})

\* C39: in every encounter the total_damage_dealt of all combatants add up to
\* the total_damage_received of all combatants, and for every combatant
\* hit_damage + crit_damage + weapon_buff_damage is the sum of
\* damage_by_source_dealt over the sources Attack and Attack (<summon>)
C39_DamageConservation == DealtEqualsReceived /\ AttackDamageSplits

\* C39, the first half alone
C39_DealtEqualsReceived == DealtEqualsReceived

\* C39, the second half alone
C39_AttackDamageSplits == AttackDamageSplits

\* C39, where no counter has passed its limit: the event alphabets with small
\* amounts, a summon's attack among them
C39_ConservationBelowLimit ==
    feed \in {"attribution", "segmentation", "tracker"} => C39_DamageConservation

\* C39: two attackers' damage has wrapped the target's counter
C39_WitnessReceivedWrapped ==
    /\ ~overflow_checks
    /\ current_encounter # None
    /\ PostStats(Hero).total_damage_dealt = HalfRange
    /\ PostStats(Imp).total_damage_dealt = HalfRange
    /\ PostStats(Orc).total_damage_received = 0

====
